---------------------------- MODULE Spec2Model ----------------------------
(***************************************************************************)
(* A model of RSMatcher: the persistent assignment database                *)
(* (rsmatch/database.py) and the matching engine (rsmatch/matcher.py):     *)
(* find_cycles, the Traversal tree search of find_solutions, and the       *)
(* do_match driver that validates and commits the winning solution.        *)
(***************************************************************************)
EXTENDS Integers, Sequences, FiniteSets, TLC

(***************************************************************************)
(* Bounds of the model and constants of the program.                       *)
(***************************************************************************)
\* number of days of a schedule matrix (len(student.schedule))
NumDays == 2
\* number of slots of a day (len(student.schedule[0]))
NumSlots == 4
\* number of do_match invocations on the same database file
MaxRuns == 2
\* number of calls of database methods from outside do_match
MaxCalls == 3
\* Metadata.slots_per_assignment = ceil(30 / 15)
SLOTS_PER_ASSIGNMENT == 2
\* Catalog guid bases
curr_student == 100000
curr_coach == 200000
curr_teacher == 300000
\* the caps of find_solutions
MAX_FINISHED == 100000
MAX_UNFINISHED == 200000
\* the caps of find_solutions scaled down, for searches that reach them
SmallMaxFinished == 2
SmallMaxUnfinished == 4

Days == 0 .. (NumDays - 1)
Slots == 0 .. (NumSlots - 1)

\* Python's None
None == "None"

(***************************************************************************)
(* Sequence and tuple helpers.                                             *)
(***************************************************************************)
Range(s) == {s[i] : i \in 1 .. Len(s)}

Last(s) == s[Len(s)]

RECURSIVE SumSeq(_)
SumSeq(s) == IF s = <<>> THEN 0 ELSE Head(s) + SumSeq(Tail(s))

RECURSIVE Flatten(_)
Flatten(ss) == IF ss = <<>> THEN <<>> ELSE Head(ss) \o Flatten(Tail(ss))

\* Python's comparison of two tuples of integers of the same length
RECURSIVE TupleLess(_, _)
TupleLess(a, b) ==
    IF a = <<>> \/ b = <<>> THEN a = <<>> /\ b # <<>>
    ELSE IF Head(a) # Head(b) THEN Head(a) < Head(b)
    ELSE TupleLess(Tail(a), Tail(b))

\* the permutations of a finite set, as sequences
RECURSIVE Perms(_)
Perms(S) ==
    IF S = {} THEN {<<>>}
    ELSE UNION {{<<x>> \o p : p \in Perms(S \ {x})} : x \in S}

\* list.sort() of a list of tuples: ascending, by Python's tuple order
RECURSIVE SortTuples(_)
SortTuples(S) ==
    IF S = {} THEN <<>>
    ELSE LET m == CHOOSE x \in S : \A y \in S \ {x} : TupleLess(x, y)
         IN <<m>> \o SortTuples(S \ {m})

(***************************************************************************)
(* The persistent state (RSDatabase) and the state of one do_match run.    *)
(***************************************************************************)
VARIABLES
    schools,        \* rsdb.schools: list of [name, students, teachers]
    teachers,       \* Teacher objects by guid: [grade]
    students,       \* Student objects by guid: [teacher, schedule, assigned]
    coaches,        \* Coach objects by guid
    coach_list,     \* rsdb.coaches: the coach guids in list order
    assignments,    \* rsdb._assignments
    disk,           \* the database file: what save() wrote last
    pc,             \* position of the driver
    run,            \* number of do_match invocations so far
    args,           \* arguments of the current do_match invocation
    school_i,       \* index of the school being processed
    school_coaches, \* the coaches selected for the school
    graph,          \* SchoolMatcher.graph
    cycles,         \* SchoolMatcher.cycles
    cycle_i,        \* index of the next cycle of find_solutions' loop
    traversals,     \* the active list of find_solutions
    finished,       \* the finished list of find_solutions
    attempts,       \* the add_cycle calls of the last round
    next_tid,       \* object identities handed out to Traversal objects
    solution,       \* SchoolMatcher.solution
    assign_i,       \* index into solution.assignments of the two commit loops
    caps,           \* max_finished and max_unfinished of find_solutions
    culled,         \* times find_solutions printed 'Culling lowest scoring solutions'
    call,           \* the last call of a database method from outside do_match
    error           \* the exception that ended the run, or None

dbvars == <<schools, teachers, students, coaches, coach_list, assignments, disk>>
matchvars == <<school_coaches, graph, cycles, cycle_i, traversals, finished,
               attempts, next_tid, solution>>
vars == <<dbvars, pc, run, args, school_i, matchvars, assign_i, caps, culled, call,
          error>>


(***************************************************************************)
(* rsmatch/database.py                                                     *)
(***************************************************************************)
\* a day x slot matrix that is 1 on the slots on[d] of day d and 0 elsewhere
Schedule(on) == [d \in Days |-> [s \in Slots |-> IF s \in on[d] THEN 1 ELSE 0]]

\* list[a:b] of one day of a schedule: Python cuts the slice at the end
SliceSlots(slot, n) == {s \in Slots : slot <= s /\ s < slot + n}

\* RSDatabase.find_school: the index of the first school that lists the
\* teacher, 0 for None
find_school(sch, teacher) ==
    LET hits == {i \in 1 .. Len(sch) : teacher \in Range(sch[i].teachers)}
    IN IF hits = {} THEN 0 ELSE CHOOSE i \in hits : \A j \in hits : i <= j

\* the checks check_assignment makes of one stored entry, in their order
CheckAgainst(sch, assign, curr_assign) ==
    LET school == find_school(sch, assign[3])
        curr_school == find_school(sch, assign[3])
    IN IF curr_assign = assign THEN "Duplicate assignment"
       ELSE IF curr_assign[4] = assign[4] THEN "Student already assigned"
       ELSE IF <<curr_assign[1], curr_assign[2], curr_assign[5]>>
                 = <<assign[1], assign[2], assign[5]>>
            THEN "Coach already assigned"
       ELSE IF <<curr_assign[1], curr_assign[5]>> = <<assign[1], assign[5]>>
               /\ curr_school # school
            THEN "Coach already assigned to a different school"
       ELSE None

\* RSDatabase.check_assignment: the message of the ValueError it raises, or
\* None when it returns
check_assignment(sch, st, co, asg, assign) ==
    LET day == assign[1]
        slot == assign[2]
        num_slots == SLOTS_PER_ASSIGNMENT
        hits == {i \in 1 .. Len(asg) :
                    CheckAgainst(sch, assign, asg[i].assign) # None}
    IN IF \E s \in SliceSlots(slot, num_slots) :
              co[assign[5]].schedule[day][s] = 0
       THEN "Coach not available"
       ELSE IF \E s \in SliceSlots(slot, num_slots) :
              st[assign[4]].schedule[day][s] = 0
       THEN "Student not available"
       ELSE IF hits # {}
       THEN CheckAgainst(sch, assign,
                asg[CHOOSE i \in hits : \A j \in hits : i <= j].assign)
       ELSE None

\* InsertIndex that puts a new tuple at the end of the list
InsertIndexAtEnd(asg, assign, assign_i_, index) ==
    [index |-> Len(asg), dup |-> \E k \in 1 .. Len(asg) : asg[k].assign = assign]

\* the position loop of add_assignment: [index, dup]
RECURSIVE InsertIndex(_, _, _, _)
InsertIndex(asg, assign, assign_i_, index) ==
    IF assign_i_ > Len(asg) THEN [index |-> index, dup |-> FALSE]
    ELSE LET curr_assign == asg[assign_i_].assign
         IN IF TupleLess(curr_assign, assign)
            THEN InsertIndex(asg, assign, assign_i_ + 1, assign_i_)
            ELSE IF curr_assign = assign
            THEN [index |-> index, dup |-> TRUE]
            ELSE [index |-> index, dup |-> FALSE]

\* list.insert(index, x), index counted from 0
ListInsert(s, index, x) ==
    SubSeq(s, 1, index) \o <<x>> \o SubSeq(s, index + 1, Len(s))

\* add_assignment that overwrites the stored entry of a tuple it finds
add_assignment_overwrites(st, co, asg, assign, manual, timestamp) ==
    LET day == assign[1]
        s_guid == assign[4]
        c_guid == assign[5]
        block == SliceSlots(assign[2], SLOTS_PER_ASSIGNMENT)
        mark(schedule) ==
            [schedule EXCEPT ![day] =
                [s \in Slots |-> IF s \in block THEN 2 ELSE @[s]]]
        pos == InsertIndex(asg, assign, 1, 0)
        entry == [assign |-> assign, manual |-> manual, timestamp |-> timestamp]
    IN [students |-> [st EXCEPT ![s_guid].assigned = TRUE,
                                ![s_guid].schedule = mark(@)],
        coaches |-> [co EXCEPT ![c_guid].assigned_days = @ \cup {day},
                               ![c_guid].assignments = @ \cup {assign},
                               ![c_guid].schedule = mark(@)],
        assignments |-> IF pos.dup
                        THEN [k \in 1 .. Len(asg) |->
                                 IF asg[k].assign = assign THEN entry ELSE asg[k]]
                        ELSE ListInsert(asg, pos.index, entry),
        error |-> IF assign[2] + SLOTS_PER_ASSIGNMENT <= NumSlots
                  THEN None ELSE "IndexError"]

\* RSDatabase.add_assignment: the students, coaches and assignment list after
\* the call, and the IndexError of a block that runs past the day's end
add_assignment(st, co, asg, assign, manual, timestamp) ==
    LET day == assign[1]
        slot == assign[2]
        s_guid == assign[4]
        c_guid == assign[5]
        block == SliceSlots(slot, SLOTS_PER_ASSIGNMENT)
        fits == slot + SLOTS_PER_ASSIGNMENT <= NumSlots
        \* the slots written before a write past the day's end raises
        mark(schedule) ==
            [schedule EXCEPT ![day] =
                [s \in Slots |-> IF s \in block THEN 2 ELSE @[s]]]
        st1 == [st EXCEPT ![s_guid].assigned = TRUE,
                          ![s_guid].schedule = mark(@)]
        co1 == [co EXCEPT ![c_guid].assigned_days = @ \cup {day},
                          ![c_guid].assignments = @ \cup {assign},
                          ![c_guid].schedule = mark(@)]
        pos == InsertIndex(asg, assign, 1, 0)
        entry == [assign |-> assign, manual |-> manual, timestamp |-> timestamp]
    IN [students |-> st1,
        coaches |-> co1,
        assignments |-> IF ~fits \/ pos.dup THEN asg
                        ELSE ListInsert(asg, pos.index, entry),
        error |-> IF fits THEN None ELSE "IndexError"]

\* to_json_obj / from_json_obj of a Student and of a Coach: the assigned
\* flag, assigned_days and assignments are not written to the file
StudentToJson(s) == [teacher |-> s.teacher, schedule |-> s.schedule]
StudentFromJson(j) ==
    [teacher |-> j.teacher, schedule |-> j.schedule, assigned |-> FALSE]
CoachToJson(c) ==
    [schools |-> c.schools, grades |-> c.grades,
     num_students |-> c.num_students, num_days |-> c.num_days,
     schedule |-> c.schedule]
CoachFromJson(j) ==
    [schools |-> j.schools, grades |-> j.grades,
     num_students |-> j.num_students, num_days |-> j.num_days,
     schedule |-> j.schedule, assigned_days |-> {}, assignments |-> {}]

\* RSDatabase.save: the file's content
save(st, co, asg) ==
    [students |-> [g \in DOMAIN st |-> StudentToJson(st[g])],
     coaches |-> [g \in DOMAIN co |-> CoachToJson(co[g])],
     assignments |-> asg]

\* the loop of from_path over the file's assignments
RECURSIVE Replay(_, _, _, _)
Replay(sch, db, file_asg, k) ==
    IF k > Len(file_asg) \/ db.error # None THEN db
    ELSE LET x == file_asg[k]
             bad == IF x.manual THEN None
                    ELSE check_assignment(sch, db.students, db.coaches,
                                          db.assignments, x.assign)
         IN IF bad # None
            THEN [db EXCEPT !.error = bad]
            ELSE Replay(sch,
                        add_assignment(db.students, db.coaches, db.assignments,
                                       x.assign, x.manual, x.timestamp),
                        file_asg, k + 1)

\* RSDatabase.from_path
from_path(sch, file) ==
    Replay(sch,
           [students |-> [g \in DOMAIN file.students |->
                             StudentFromJson(file.students[g])],
            coaches |-> [g \in DOMAIN file.coaches |->
                             CoachFromJson(file.coaches[g])],
            assignments |-> <<>>,
            error |-> None],
           file.assignments, 1)

(***************************************************************************)
(* rsmatch/matcher.py: SchoolMatcher.find_cycles                           *)
(***************************************************************************)
\* nodes[(day_i, slot_i)][teacher_guid]: the students of the teacher that are
\* available (1) in the cell, in the order of the shuffled student list
NodeStudents(st, order, day_i, slot_i, teacher_guid) ==
    SelectSeq(order, LAMBDA g : st[g].schedule[day_i][slot_i] = 1
                                /\ st[g].teacher = teacher_guid)

\* the keys (day_i, slot_i, teacher_guid) of the nodes dict
NodeKeys(st, order) ==
    {<<d, s, st[g].teacher>> : d \in Days, s \in Slots, g \in Range(order)}

RealNodes(st, order) ==
    {n \in NodeKeys(st, order) :
        NodeStudents(st, order, n[1], n[2], n[3]) # <<>>}

\* the master graph: add_node for every entry of nodes, add_edge from the
\* previous slot's key (networkx adds a missing endpoint as a node without a
\* students attribute)
BuildGraph(st, order) ==
    LET real == RealNodes(st, order)
        edges == {<<(<<n[1], n[2] - 1, n[3]>>), n>> : n \in {m \in real : m[2] >= 1}}
    IN [nodes |-> real \cup {e[1] : e \in edges},
        students |-> [n \in real |-> NodeStudents(st, order, n[1], n[2], n[3])],
        edges |-> edges]

\* CoachNodes without the grade preference
CoachNodesAnyGrade(tch, g, coach) ==
    {n \in DOMAIN g.students : coach.schedule[n[1]][n[2]] = 1}

\* the nodes the coach node is joined to, in both directions
CoachNodes(tch, g, coach) ==
    LET grades == coach.grades
        no_grade_pref == Cardinality(grades) = 0
    IN {n \in DOMAIN g.students :
           /\ coach.schedule[n[1]][n[2]] = 1
           /\ (no_grade_pref \/ tch[n[3]].grade \in grades)}

\* the paths of the graph that extend path without meeting a node twice
RECURSIVE PathsFrom(_, _)
PathsFrom(edges, path) ==
    {path} \cup
    UNION {PathsFrom(edges, Append(path, e[2])) :
              e \in {x \in edges : x[1] = Last(path) /\ x[2] \notin Range(path)}}

\* networkx.simple_cycles(coach_graph) with the coach node removed: every
\* elementary cycle leaves the coach node, follows master edges and returns
simple_cycles(g, coach_nodes) ==
    {p \in UNION {PathsFrom(g.edges, <<n>>) : n \in coach_nodes} :
        Last(p) \in coach_nodes}

\* FilteredCycles without the test against the coach's num_students
FilteredCyclesAnyCount(coach_guid, coach, raw) ==
    {<<coach_guid>> \o SortTuples(Range(p)) :
        p \in {q \in raw : (Len(q) % SLOTS_PER_ASSIGNMENT) = 0}}

\* FilteredCycles that lists the nodes of a cycle from the last slot to the first
FilteredCyclesUnsorted(coach_guid, coach, raw) ==
    {<<coach_guid>> \o [i \in 1 .. Len(p) |-> SortTuples(Range(p))[Len(p) + 1 - i]] :
        p \in {q \in raw :
                 /\ (Len(q) \div SLOTS_PER_ASSIGNMENT) <= coach.num_students
                 /\ (Len(q) % SLOTS_PER_ASSIGNMENT) = 0}}

\* FilteredCycles without the test that the cycle is a whole number of blocks
FilteredCyclesAnyLength(coach_guid, coach, raw) ==
    {<<coach_guid>> \o SortTuples(Range(p)) :
        p \in {q \in raw :
                 (Len(q) \div SLOTS_PER_ASSIGNMENT) <= coach.num_students}}

\* the filter and the canonical form of one coach's cycles
FilteredCycles(coach_guid, coach, raw) ==
    {<<coach_guid>> \o SortTuples(Range(p)) :
        p \in {q \in raw :
                 /\ (Len(q) \div SLOTS_PER_ASSIGNMENT) <= coach.num_students
                 /\ (Len(q) % SLOTS_PER_ASSIGNMENT) = 0}}

\* filtered_cycles.sort(key=len) of a list whose order is the enumeration's:
\* ascending by length, cycles of one length in any order
RECURSIVE LengthSorted(_)
LengthSorted(S) ==
    IF S = {} THEN {<<>>}
    ELSE LET m == CHOOSE k \in {Len(c) : c \in S} :
                      \A c \in S : k <= Len(c)
             G == {c \in S : Len(c) = m}
         IN {p \o q : p \in Perms(G), q \in LengthSorted(S \ G)}

\* the possible values of all_cycles: one sorted list per coach
RECURSIVE AllCycles(_, _, _, _, _)
AllCycles(tch, co, g, sc, i) ==
    IF i > Len(sc) THEN {<<>>}
    ELSE LET coach_guid == sc[i]
             raw == simple_cycles(g, CoachNodes(tch, g, co[coach_guid]))
             lists == LengthSorted(FilteredCycles(coach_guid, co[coach_guid], raw))
         IN {<<l>> \o rest : l \in lists, rest \in AllCycles(tch, co, g, sc, i + 1)}

\* round-robin by coach: pop() the last cycle of every non-empty list in turn
RECURSIVE RoundRobinByCoach(_)
RoundRobinByCoach(all_cycles) ==
    IF \A i \in 1 .. Len(all_cycles) : Len(all_cycles[i]) = 0 THEN <<>>
    ELSE Flatten([i \in 1 .. Len(all_cycles) |->
                    IF Len(all_cycles[i]) = 0 THEN <<>>
                    ELSE <<Last(all_cycles[i])>>])
         \o RoundRobinByCoach([i \in 1 .. Len(all_cycles) |->
                    IF Len(all_cycles[i]) = 0 THEN <<>>
                    ELSE SubSeq(all_cycles[i], 1, Len(all_cycles[i]) - 1)])

\* the teacher of a cycle: cycle[-1][-1]
CycleTeacher(cycle) == Last(Last(cycle))

\* the keys of cycles_by_teacher in insertion order
RECURSIVE TeacherOrder(_, _)
TeacherOrder(cs, seen) ==
    IF cs = <<>> THEN <<>>
    ELSE LET t == CycleTeacher(Head(cs))
         IN IF t \in seen THEN TeacherOrder(Tail(cs), seen)
            ELSE <<t>> \o TeacherOrder(Tail(cs), seen \cup {t})

\* round-robin by teacher: pop(0) the first cycle of every non-empty list
RECURSIVE RoundRobinFront(_)
RoundRobinFront(lists) ==
    IF \A i \in 1 .. Len(lists) : Len(lists[i]) = 0 THEN <<>>
    ELSE Flatten([i \in 1 .. Len(lists) |->
                    IF Len(lists[i]) = 0 THEN <<>> ELSE <<Head(lists[i])>>])
         \o RoundRobinFront([i \in 1 .. Len(lists) |->
                    IF Len(lists[i]) = 0 THEN <<>> ELSE Tail(lists[i])])

RoundRobinByTeacher(cs) ==
    LET order == TeacherOrder(cs, {})
        cycles_by_teacher ==
            [k \in 1 .. Len(order) |->
                SelectSeq(cs, LAMBDA c : CycleTeacher(c) = order[k])]
    IN RoundRobinFront(cycles_by_teacher)

\* the ordered cycle list of find_cycles for one value of all_cycles
OrderCycles(all_cycles) == RoundRobinByTeacher(RoundRobinByCoach(all_cycles))

(***************************************************************************)
(* rsmatch/matcher.py: Traversal                                           *)
(***************************************************************************)
\* the value of the four per-branch attributes a Done traversal releases
\* (None), and of the score cache before its first use (None)
NoneMap == <<>>
NoneSet == {}
NoScore == <<>>

\* a root traversal that starts every coach without used days
RootTraversalFreshDays(tid, school, sc, st, co) ==
    LET coach_student_count ==
            [g \in Range(sc) |-> co[g].num_students - Cardinality(co[g].assignments)]
        coach_day_count ==
            [g \in Range(sc) |-> co[g].num_days - Cardinality(co[g].assigned_days)]
    IN [tid |-> tid,
        done |-> FALSE,
        score_ |-> NoScore,
        coach_student_count |-> coach_student_count,
        coach_day_count |-> coach_day_count,
        days_remaining |-> SumSeq([i \in 1 .. Len(sc) |-> coach_day_count[sc[i]]]),
        students_remaining |->
            SumSeq([i \in 1 .. Len(sc) |-> coach_student_count[sc[i]]]),
        coach_days |-> [g \in Range(sc) |-> {}],
        unassigned_students |-> {g \in Range(school.students) : ~st[g].assigned},
        assigned_students |-> {g \in Range(school.students) : st[g].assigned},
        nodes_used |-> {},
        num_cycles |-> 0,
        assignments |-> <<>>]

\* Traversal(school, coaches): the root, from the live Coach and Student objects
RootTraversal(tid, school, sc, st, co) ==
    LET coach_student_count ==
            [g \in Range(sc) |-> co[g].num_students - Cardinality(co[g].assignments)]
        coach_day_count ==
            [g \in Range(sc) |-> co[g].num_days - Cardinality(co[g].assigned_days)]
    IN [tid |-> tid,
        done |-> FALSE,
        score_ |-> NoScore,
        coach_student_count |-> coach_student_count,
        coach_day_count |-> coach_day_count,
        days_remaining |-> SumSeq([i \in 1 .. Len(sc) |-> coach_day_count[sc[i]]]),
        students_remaining |->
            SumSeq([i \in 1 .. Len(sc) |-> coach_student_count[sc[i]]]),
        coach_days |-> [g \in Range(sc) |-> co[g].assigned_days],
        unassigned_students |-> {g \in Range(school.students) : ~st[g].assigned},
        assigned_students |-> {g \in Range(school.students) : st[g].assigned},
        nodes_used |-> {},
        num_cycles |-> 0,
        assignments |-> <<>>]

\* Traversal(school, coaches, parent=self): a copy of the parent's state
ChildTraversal(tid, parent) ==
    [parent EXCEPT !.tid = tid, !.done = FALSE, !.score_ = NoScore]

\* ToAssign without the test that the student is still unassigned
ToAssignAnyStudent(g, result, node, nodes) ==
    LET node_students == g.students[node]
        possible_students ==
            {x \in Range(node_students) :
                \A curr_node \in nodes : x \in Range(g.students[curr_node])}
        hits == {i \in 1 .. Len(node_students) :
                    node_students[i] \in possible_students}
    IN IF hits = {} THEN 0
       ELSE node_students[CHOOSE i \in hits : \A j \in hits : i <= j]

\* ToAssign without the intersection over the nodes of the block
ToAssignFirstNodeOnly(g, result, node, nodes) ==
    LET node_students == g.students[node]
        hits == {i \in 1 .. Len(node_students) :
                    node_students[i] \in result.unassigned_students}
    IN IF hits = {} THEN 0
       ELSE node_students[CHOOSE i \in hits : \A j \in hits : i <= j]

\* the first student of node_students that is free for the whole block and
\* still unassigned; 0 for None
ToAssign(g, result, node, nodes) ==
    LET node_students == g.students[node]
        possible_students ==
            {x \in Range(node_students) :
                \A curr_node \in nodes : x \in Range(g.students[curr_node])}
        hits == {i \in 1 .. Len(node_students) :
                    /\ node_students[i] \in possible_students
                    /\ node_students[i] \in result.unassigned_students}
    IN IF hits = {} THEN 0
       ELSE node_students[CHOOSE i \in hits : \A j \in hits : i <= j]

\* AddGroup that leaves the chosen student in the unassigned set
AddGroupLeavesUnassigned(g, acc, coach_guid, nodes_seq) ==
    LET result == acc.result
        node == nodes_seq[1]
        nodes == Range(nodes_seq)
    IN IF nodes \cap result.nodes_used # {} THEN acc
       ELSE LET used == [result EXCEPT !.nodes_used = nodes \cup @]
                to_assign == ToAssign(g, used, node, nodes)
            IN IF to_assign = 0 THEN [acc EXCEPT !.result = used]
               ELSE [result |->
                        [used EXCEPT
                           !.assigned_students = @ \cup {to_assign},
                           !.coach_student_count[coach_guid] = @ - 1,
                           !.students_remaining = @ - 1,
                           !.assignments = Append(@,
                               <<node[1], node[2], node[3], to_assign, coach_guid>>)],
                     num_assignments |-> acc.num_assignments + 1]

\* AddGroup without the test of the block's nodes against nodes_used
AddGroupNoExclusivity(g, acc, coach_guid, nodes_seq) ==
    LET result == acc.result
        node == nodes_seq[1]
        nodes == Range(nodes_seq)
        used == [result EXCEPT !.nodes_used = nodes \cup @]
        to_assign == ToAssign(g, used, node, nodes)
    IN IF to_assign = 0 THEN [acc EXCEPT !.result = used]
       ELSE [result |->
                [used EXCEPT
                   !.unassigned_students = @ \ {to_assign},
                   !.assigned_students = @ \cup {to_assign},
                   !.coach_student_count[coach_guid] = @ - 1,
                   !.students_remaining = @ - 1,
                   !.assignments = Append(@,
                       <<node[1], node[2], node[3], to_assign, coach_guid>>)],
             num_assignments |-> acc.num_assignments + 1]

\* one pass of the loop over the cycle's groups: [result, num_assignments]
AddGroup(g, acc, coach_guid, nodes_seq) ==
    LET result == acc.result
        node == nodes_seq[1]
        nodes == Range(nodes_seq)
    IN IF nodes \cap result.nodes_used # {} THEN acc
       ELSE LET used == [result EXCEPT !.nodes_used = nodes \cup @]
                to_assign == ToAssign(g, used, node, nodes)
            IN IF to_assign = 0 THEN [acc EXCEPT !.result = used]
               ELSE [result |->
                        [used EXCEPT
                           !.unassigned_students = @ \ {to_assign},
                           !.assigned_students = @ \cup {to_assign},
                           !.coach_student_count[coach_guid] = @ - 1,
                           !.students_remaining = @ - 1,
                           !.assignments = Append(@,
                               <<node[1], node[2], node[3], to_assign, coach_guid>>)],
                     num_assignments |-> acc.num_assignments + 1]

\* the loop for node_i in range(0, len(cycle), SLOTS_PER_ASSIGNMENT)
RECURSIVE AddGroups(_, _, _, _, _)
AddGroups(g, acc, coach_guid, cyc, node_i) ==
    IF node_i >= Len(cyc) THEN acc
    ELSE AddGroups(g,
                   AddGroup(g, acc, coach_guid,
                            SubSeq(cyc, node_i + 1,
                                   IF node_i + SLOTS_PER_ASSIGNMENT <= Len(cyc)
                                   THEN node_i + SLOTS_PER_ASSIGNMENT
                                   ELSE Len(cyc))),
                   coach_guid, cyc, node_i + SLOTS_PER_ASSIGNMENT)

\* CanTry without the rule on the coach's remaining days
CanTryNoDayCapacity(self, coach_guid, cyc) ==
    /\ (Len(cyc) \div SLOTS_PER_ASSIGNMENT) <= self.coach_student_count[coach_guid]
    /\ cyc[1][1] \notin self.coach_days[coach_guid]

\* CanTry without the rule on visits on the same day
CanTryNoSameDay(self, coach_guid, cyc) ==
    /\ self.coach_day_count[coach_guid] # 0
    /\ (Len(cyc) \div SLOTS_PER_ASSIGNMENT) <= self.coach_student_count[coach_guid]

\* the three rules add_cycle checks before it creates a child
CanTry(self, coach_guid, cyc) ==
    /\ self.coach_day_count[coach_guid] # 0
    /\ (Len(cyc) \div SLOTS_PER_ASSIGNMENT) <= self.coach_student_count[coach_guid]
    /\ cyc[1][1] \notin self.coach_days[coach_guid]

\* Terminal without the test of the set of unassigned students
TerminalByCapacity(self) ==
    \/ self.days_remaining = 0
    \/ self.students_remaining = 0

\* the terminal condition add_cycle evaluates on self
Terminal(self) ==
    \/ self.days_remaining = 0
    \/ self.students_remaining = 0
    \/ self.unassigned_students = {}

\* Release that also gives up the set of unassigned students
ReleaseUnassigned(self) ==
    [self EXCEPT !.done = TRUE,
                 !.coach_student_count = NoneMap,
                 !.coach_day_count = NoneMap,
                 !.coach_days = NoneMap,
                 !.nodes_used = NoneSet,
                 !.unassigned_students = NoneSet]

\* self after add_cycle: marked done, its per-branch state released
Release(self) ==
    [self EXCEPT !.done = TRUE,
                 !.coach_student_count = NoneMap,
                 !.coach_day_count = NoneMap,
                 !.coach_days = NoneMap,
                 !.nodes_used = NoneSet]

\* add_cycle that returns the child when some group, not every group, of the
\* cycle received a student
add_cycle_partial(self, tid, g, cycle) ==
    LET coach_guid == cycle[1]
        cyc == Tail(cycle)
        created == CanTry(self, coach_guid, cyc)
        child0 == [ChildTraversal(tid, self) EXCEPT !.num_cycles = @ + 1]
        acc == AddGroups(g, [result |-> child0, num_assignments |-> 0],
                         coach_guid, cyc, 0)
        accepted == created /\ acc.num_assignments > 0
        child == IF accepted
                 THEN [acc.result EXCEPT
                          !.coach_day_count[coach_guid] = @ - 1,
                          !.days_remaining = @ - 1,
                          !.coach_days[coach_guid] = @ \cup {cyc[1][1]}]
                 ELSE IF created THEN acc.result ELSE self
    IN [self |-> IF Terminal(self) THEN Release(self) ELSE self,
        before |-> self,
        cycle |-> cycle,
        created |-> created,
        accepted |-> accepted,
        child |-> child]

\* add_cycle that runs the loop over the groups on self instead of on a
\* copy, so that an abandoned cycle leaves its changes in self
add_cycle_in_place(self, tid, g, cycle) ==
    LET coach_guid == cycle[1]
        cyc == Tail(cycle)
        created == CanTry(self, coach_guid, cyc)
        child0 == [ChildTraversal(tid, self) EXCEPT !.num_cycles = @ + 1]
        acc == AddGroups(g, [result |-> child0, num_assignments |-> 0],
                         coach_guid, cyc, 0)
        accepted == created
                    /\ acc.num_assignments = (Len(cyc) \div SLOTS_PER_ASSIGNMENT)
        child == IF accepted
                 THEN [acc.result EXCEPT
                          !.coach_day_count[coach_guid] = @ - 1,
                          !.days_remaining = @ - 1,
                          !.coach_days[coach_guid] = @ \cup {cyc[1][1]}]
                 ELSE IF created THEN acc.result ELSE self
        changed == IF created /\ ~accepted
                   THEN [acc.result EXCEPT !.tid = self.tid,
                                           !.num_cycles = self.num_cycles,
                                           !.score_ = self.score_]
                   ELSE self
    IN [self |-> IF Terminal(changed) THEN Release(changed) ELSE changed,
        before |-> self,
        cycle |-> cycle,
        created |-> created,
        accepted |-> accepted,
        child |-> child]

\* Traversal.add_cycle(graph, cycle) with tid the identity of the child it
\* may create: self after the call, whether a child was created, whether it
\* is returned (result is not None), and the child as the loop left it
add_cycle(self, tid, g, cycle) ==
    LET coach_guid == cycle[1]
        cyc == Tail(cycle)
        created == CanTry(self, coach_guid, cyc)
        day_i == cyc[1][1]
        child0 == [ChildTraversal(tid, self) EXCEPT !.num_cycles = @ + 1]
        acc == AddGroups(g, [result |-> child0, num_assignments |-> 0],
                         coach_guid, cyc, 0)
        accepted == created
                    /\ acc.num_assignments = (Len(cyc) \div SLOTS_PER_ASSIGNMENT)
        child == IF accepted
                 THEN [acc.result EXCEPT
                          !.coach_day_count[coach_guid] = @ - 1,
                          !.days_remaining = @ - 1,
                          !.coach_days[coach_guid] = @ \cup {day_i}]
                 ELSE IF created THEN acc.result ELSE self
    IN [self |-> IF Terminal(self) THEN Release(self) ELSE self,
        before |-> self,
        cycle |-> cycle,
        created |-> created,
        accepted |-> accepted,
        child |-> child]

\* SlotOverlaps that compares the slot without the day
RECURSIVE SlotOverlapsIgnoringDay(_, _)
SlotOverlapsIgnoringDay(asg, slots) ==
    IF asg = <<>> THEN 0
    ELSE LET slot == Head(asg)[2]
         IN IF slot \in slots THEN 1 + SlotOverlapsIgnoringDay(Tail(asg), slots)
            ELSE SlotOverlapsIgnoringDay(Tail(asg), slots \cup {slot})

\* the score property, computed: a 4-tuple
RECURSIVE SlotOverlaps(_, _)
SlotOverlaps(asg, slots) ==
    IF asg = <<>> THEN 0
    ELSE LET slot == <<Head(asg)[1], Head(asg)[2]>>
         IN IF slot \in slots THEN 1 + SlotOverlaps(Tail(asg), slots)
            ELSE SlotOverlaps(Tail(asg), slots \cup {slot})

\* ComputeScore that counts every teacher of the school as unassigned
ComputeScoreAllTeachers(self, school) ==
    <<Cardinality(self.unassigned_students),
      Len(school.teachers),
      SlotOverlaps(self.assignments, {}),
      self.days_remaining>>

ComputeScore(self, school) ==
    LET unassigned_teachers ==
            Range(school.teachers) \ {self.assignments[i][3] :
                                         i \in 1 .. Len(self.assignments)}
    IN <<Cardinality(self.unassigned_students),
         Cardinality(unassigned_teachers),
         SlotOverlaps(self.assignments, {}),
         self.days_remaining>>

\* Traversal.score: computed on the first access and cached in _score
score(self, school) ==
    IF self.score_ = NoScore THEN ComputeScore(self, school) ELSE self.score_

Scored(self, school) == [self EXCEPT !.score_ = score(self, school)]

\* Traversal.reset_score
reset_score(self) == [self EXCEPT !.score_ = NoScore]

\* SortByScore that reads every score and leaves the list in its order
SortByScoreKeepsOrder(ts, school) ==
    [i \in 1 .. Len(ts) |-> Scored(ts[i], school)]

\* list.sort(key=lambda x: x.score): stable, ascending; every element's score
\* is read, and so cached
RECURSIVE SortByScore(_, _)
SortByScore(ts, school) ==
    IF ts = <<>> THEN <<>>
    ELSE LET n == Len(ts)
             x == Scored(ts[n], school)
             front == SortByScore(SubSeq(ts, 1, n - 1), school)
             k == Cardinality({i \in 1 .. Len(front) :
                                  ~TupleLess(x.score_, front[i].score_)})
         IN SubSeq(front, 1, k) \o <<x>> \o SubSeq(front, k + 1, Len(front))

(***************************************************************************)
(* The databases the model starts from: one school, two teachers, three    *)
(* students, two coaches.                                                  *)
(***************************************************************************)
T1 == curr_teacher
T2 == curr_teacher + 1
S1 == curr_student
S2 == curr_student + 1
S3 == curr_student + 2
C1 == curr_coach
C2 == curr_coach + 1

\* slot sets of one day
Block0 == 0 .. (SLOTS_PER_ASSIGNMENT - 1)
TwoBlocks == 0 .. (2 * SLOTS_PER_ASSIGNMENT - 1)
Ends == {0, 2 * SLOTS_PER_ASSIGNMENT - 1}
Head0 == {0}

LastDay == NumDays - 1
OnDay(day, slots) == [d \in Days |-> IF d = day THEN slots ELSE {}]
EveryDay(slots) == [d \in Days |-> slots]

Student(teacher, on) ==
    [teacher |-> teacher, schedule |-> Schedule(on), assigned |-> FALSE]

Coach(coach_schools, grades, num_students, num_days, on) ==
    [schools |-> coach_schools, grades |-> grades,
     num_students |-> num_students, num_days |-> num_days,
     schedule |-> Schedule(on), assigned_days |-> {}, assignments |-> {}]

InitSchools ==
    <<[name |-> "A", students |-> <<S1, S2, S3>>, teachers |-> <<T1, T2>>]>>

InitTeachers == (T1 :> [grade |-> "1"]) @@ (T2 :> [grade |-> "2"])

InitStudents ==
    {(S1 :> Student(T1, on1)) @@ (S2 :> Student(T1, on2)) @@ (S3 :> Student(T2, on3)) :
        on1 \in {OnDay(0, Head0), OnDay(0, Slots)},
        on2 \in {OnDay(0, TwoBlocks), OnDay(LastDay, Block0)},
        on3 \in {OnDay(0, Block0), OnDay(0, {})}}

\* the second coach is eligible for the school by its second choice only
InitCoaches ==
    {(C1 :> Coach(<<"A", "B">>, grades, num_students, num_days, on1))
     @@ (C2 :> Coach(<<"B", "A">>, {}, 1, 1, OnDay(0, Block0))) :
        grades \in {{}, {"1"}},
        num_students \in 1 .. 2,
        num_days \in 1 .. 2,
        on1 \in {OnDay(0, Ends), OnDay(0, Slots), EveryDay(Block0)}}

\* the arguments of a do_match call: on a database of one school every
\* school by first choice, with or without second choice; on a database of
\* more schools also one school by name and no first choice
MatchArgs ==
    {[school |-> school, first |-> first, second |-> second, greatest |-> FALSE] :
        school \in IF Len(schools) = 1 THEN {None}
                   ELSE {None} \cup {schools[i].name : i \in 1 .. Len(schools)},
        first \in IF Len(schools) = 1 THEN {TRUE} ELSE BOOLEAN,
        second \in BOOLEAN}

\* no do_match call was made yet
Idle ==
    /\ pc = "idle"
    /\ run = 0
    /\ args = None
    /\ school_i = 0
    /\ school_coaches = <<>>
    /\ graph = None
    /\ cycles = <<>>
    /\ cycle_i = 0
    /\ traversals = <<>>
    /\ finished = <<>>
    /\ attempts = <<>>
    /\ next_tid = 1
    /\ solution = None
    /\ assign_i = 0
    /\ culled = 0
    /\ call = None
    /\ error = None

\* a database file of the school, its teachers, students and coaches, without
\* assignments
Database ==
    /\ schools = InitSchools
    /\ teachers = InitTeachers
    /\ coach_list = <<C2, C1>>
    /\ \E st \in InitStudents, co \in InitCoaches :
          /\ students = st
          /\ coaches = co
          /\ disk = save(st, co, <<>>)
    /\ assignments = <<>>

Init ==
    /\ Database
    /\ Idle
    /\ caps = [max_finished |-> MAX_FINISHED, max_unfinished |-> MAX_UNFINISHED]

(***************************************************************************)
(* rsmatch/matcher.py: do_match, find_cycles and find_solutions as steps   *)
(***************************************************************************)
\* do_match: RSDatabase.from_path(database_path) and the first school
DoMatch ==
    /\ pc \in {"idle", "failed"}
    /\ run < MaxRuns
    /\ \E a \in MatchArgs :
          LET db == from_path(schools, disk)
          IN /\ args' = a
             /\ run' = run + 1
             /\ students' = db.students
             /\ coaches' = db.coaches
             /\ assignments' = db.assignments
             /\ error' = db.error
             /\ pc' = IF db.error = None THEN "school" ELSE "failed"
             /\ school_i' = 1
    /\ UNCHANGED <<schools, teachers, coach_list, disk, matchvars, assign_i, caps, culled, call>>

\* the coaches do_match selects for a school
SchoolCoaches(a, school_obj, co, cl) ==
    SelectSeq(cl, LAMBDA g :
        \/ (a.first /\ school_obj.name = co[g].schools[1])
        \/ (a.second /\ school_obj.name = co[g].schools[2])
        \/ (a.greatest /\ "Greatest Need" \in Range(co[g].schools)))

\* do_match: the head of the loop over rsdb.schools
SelectSchool ==
    /\ pc = "school"
    /\ school_i <= Len(schools)
    /\ IF args.school \in {None, schools[school_i].name}
       THEN /\ school_coaches' = SchoolCoaches(args, schools[school_i], coaches, coach_list)
            /\ graph' = None
            /\ cycles' = <<>>
            /\ solution' = None
            /\ pc' = "find_cycles"
            /\ UNCHANGED school_i
       ELSE /\ school_i' = school_i + 1
            /\ UNCHANGED <<pc, school_coaches, graph, cycles, solution>>
    /\ UNCHANGED <<dbvars, run, args, cycle_i, traversals, finished, attempts,
                   next_tid, assign_i, caps, culled, call, error>>

\* do_match: rsdb.save() after the last school
Save ==
    /\ pc = "school"
    /\ school_i > Len(schools)
    /\ disk' = save(students, coaches, assignments)
    /\ pc' = "idle"
    /\ UNCHANGED <<schools, teachers, students, coaches, coach_list, assignments,
                   run, args, school_i, matchvars, assign_i, caps, culled, call, error>>

\* SchoolMatcher.find_cycles: the shuffle and the enumeration order of
\* simple_cycles are free
FindCycles ==
    /\ pc = "find_cycles"
    /\ IF Len(schools[school_i].students) = 0
       THEN /\ pc' = "failed"
            /\ error' = "IndexError"
            /\ UNCHANGED <<graph, cycles>>
       ELSE /\ \E order \in Perms(Range(schools[school_i].students)) :
                 LET g == BuildGraph(students, order)
                 IN /\ graph' = g
                    /\ \E all_cycles \in AllCycles(teachers, coaches, g, school_coaches, 1) :
                          cycles' = OrderCycles(all_cycles)
            /\ pc' = "find_solutions"
            /\ UNCHANGED error
    /\ UNCHANGED <<dbvars, run, args, school_i, school_coaches, cycle_i, traversals,
                   finished, attempts, next_tid, solution, assign_i, caps, culled, call>>

\* find_solutions up to its loop: the root traversal
FindSolutionsBegin ==
    /\ pc = "find_solutions"
    /\ traversals' = <<RootTraversal(next_tid, schools[school_i], school_coaches,
                                      students, coaches)>>
    /\ next_tid' = next_tid + 1
    /\ finished' = <<>>
    /\ attempts' = <<>>
    /\ cycle_i' = 1
    /\ culled' = 0
    /\ pc' = "round"
    /\ UNCHANGED <<dbvars, run, args, school_i, school_coaches, graph, cycles,
                   solution, assign_i, caps, call, error>>

\* Cull that keeps no traversal at all
CullKeepsNone(ts, school, max_finished) == <<>>

\* Cull that sorts and resets the scores but cuts nothing
CullKeepsAll(ts, school, max_finished) ==
    LET sorted == SortByScore(ts, school)
    IN [i \in 1 .. Len(sorted) |-> reset_score(sorted[i])]

\* Cull that cuts the list as it stands, without the sort
CullUnsorted(ts, school, max_finished) ==
    LET keep == IF Len(ts) < max_finished THEN Len(ts) ELSE max_finished
    IN [i \in 1 .. keep |-> reset_score(ts[i])]

\* the cull at the head of a round: sort by score, keep the best, reset
Cull(ts, school, max_finished) ==
    LET sorted == SortByScore(ts, school)
        keep == IF Len(sorted) < max_finished THEN Len(sorted) ELSE max_finished
    IN [i \in 1 .. keep |-> reset_score(sorted[i])]

\* Round without the test of the finished list against max_finished
RoundPastCap ==
    /\ pc = "round"
    /\ cycle_i <= Len(cycles)
    /\ LET active == IF Len(traversals) >= caps.max_unfinished
                     THEN Cull(traversals, schools[school_i], caps.max_finished)
                     ELSE traversals
           calls == [i \in 1 .. Len(active) |->
                        add_cycle(active[i], next_tid + i - 1, graph, cycles[cycle_i])]
       IN /\ attempts' = calls
          /\ traversals' = Flatten([i \in 1 .. Len(calls) |->
                  (IF calls[i].accepted THEN <<calls[i].child>> ELSE <<>>)
                  \o (IF calls[i].self.done THEN <<>> ELSE <<calls[i].self>>)])
          /\ finished' = finished \o Flatten([i \in 1 .. Len(calls) |->
                  IF calls[i].self.done THEN <<calls[i].self>> ELSE <<>>])
          /\ next_tid' = next_tid + Len(active)
    /\ cycle_i' = cycle_i + 1
    /\ culled' = IF Len(traversals) >= caps.max_unfinished THEN culled + 1 ELSE culled
    /\ UNCHANGED <<dbvars, pc, run, args, school_i, school_coaches, graph, cycles,
                   solution, assign_i, caps, call, error>>

\* Round that keeps every attempted traversal in the active list, Done or not
RoundKeepsDone ==
    /\ pc = "round"
    /\ cycle_i <= Len(cycles)
    /\ Len(finished) < caps.max_finished
    /\ LET active == IF Len(traversals) >= caps.max_unfinished
                     THEN Cull(traversals, schools[school_i], caps.max_finished)
                     ELSE traversals
           calls == [i \in 1 .. Len(active) |->
                        add_cycle(active[i], next_tid + i - 1, graph, cycles[cycle_i])]
       IN /\ attempts' = calls
          /\ traversals' = Flatten([i \in 1 .. Len(calls) |->
                  (IF calls[i].accepted THEN <<calls[i].child>> ELSE <<>>)
                  \o <<calls[i].self>>])
          /\ finished' = finished \o Flatten([i \in 1 .. Len(calls) |->
                  IF calls[i].self.done THEN <<calls[i].self>> ELSE <<>>])
          /\ next_tid' = next_tid + Len(active)
    /\ cycle_i' = cycle_i + 1
    /\ culled' = IF Len(traversals) >= caps.max_unfinished THEN culled + 1 ELSE culled
    /\ UNCHANGED <<dbvars, pc, run, args, school_i, school_coaches, graph, cycles,
                   solution, assign_i, caps, call, error>>

\* one pass of the loop over cycles: add_cycle on every active traversal
Round ==
    /\ pc = "round"
    /\ cycle_i <= Len(cycles)
    /\ Len(finished) < caps.max_finished
    /\ LET active == IF Len(traversals) >= caps.max_unfinished
                     THEN Cull(traversals, schools[school_i], caps.max_finished)
                     ELSE traversals
           calls == [i \in 1 .. Len(active) |->
                        add_cycle(active[i], next_tid + i - 1, graph, cycles[cycle_i])]
       IN /\ attempts' = calls
          /\ traversals' = Flatten([i \in 1 .. Len(calls) |->
                  (IF calls[i].accepted THEN <<calls[i].child>> ELSE <<>>)
                  \o (IF calls[i].self.done THEN <<>> ELSE <<calls[i].self>>)])
          /\ finished' = finished \o Flatten([i \in 1 .. Len(calls) |->
                  IF calls[i].self.done THEN <<calls[i].self>> ELSE <<>>])
          /\ next_tid' = next_tid + Len(active)
    /\ cycle_i' = cycle_i + 1
    /\ culled' = IF Len(traversals) >= caps.max_unfinished THEN culled + 1 ELSE culled
    /\ UNCHANGED <<dbvars, pc, run, args, school_i, school_coaches, graph, cycles,
                   solution, assign_i, caps, call, error>>

\* FindSolutionsEnd that adds every active traversal when there is room for one
FindSolutionsEndFillsAll ==
    /\ pc = "round"
    /\ (cycle_i > Len(cycles) \/ Len(finished) >= caps.max_finished)
    /\ LET school == schools[school_i]
           room == caps.max_finished - Len(finished)
           sorted == IF room > 0 THEN SortByScore(traversals, school) ELSE traversals
           filled == IF room > 0 THEN finished \o sorted ELSE finished
           final == SortByScore(filled, school)
       IN /\ traversals' = sorted
          /\ finished' = final
          /\ solution' = final[1]
          /\ IF Len(final[1].assignments) = 0
             THEN /\ pc' = "school"
                  /\ school_i' = school_i + 1
             ELSE /\ pc' = "check"
                  /\ UNCHANGED school_i
    /\ assign_i' = 1
    /\ UNCHANGED <<dbvars, run, args, school_coaches, graph, cycles, cycle_i,
                   attempts, next_tid, caps, culled, call, error>>

\* FindSolutionsEnd that takes the second traversal of the sorted list, if there is one
FindSolutionsEndTakesSecond ==
    /\ pc = "round"
    /\ (cycle_i > Len(cycles) \/ Len(finished) >= caps.max_finished)
    /\ LET school == schools[school_i]
           room == caps.max_finished - Len(finished)
           sorted == IF room > 0 THEN SortByScore(traversals, school) ELSE traversals
           filled == IF room > 0
                     THEN finished \o SubSeq(sorted, 1,
                              IF Len(sorted) < room THEN Len(sorted) ELSE room)
                     ELSE finished
           final == SortByScore(filled, school)
           taken == IF Len(final) > 1 THEN 2 ELSE 1
       IN /\ traversals' = sorted
          /\ finished' = final
          /\ solution' = final[taken]
          /\ IF Len(final[taken].assignments) = 0
             THEN /\ pc' = "school"
                  /\ school_i' = school_i + 1
             ELSE /\ pc' = "check"
                  /\ UNCHANGED school_i
    /\ assign_i' = 1
    /\ UNCHANGED <<dbvars, run, args, school_coaches, graph, cycles, cycle_i,
                   attempts, next_tid, caps, culled, call, error>>

\* find_solutions after its loop: fill finished, sort, take the first
FindSolutionsEnd ==
    /\ pc = "round"
    /\ (cycle_i > Len(cycles) \/ Len(finished) >= caps.max_finished)
    /\ LET school == schools[school_i]
           room == caps.max_finished - Len(finished)
           sorted == IF room > 0 THEN SortByScore(traversals, school) ELSE traversals
           filled == IF room > 0
                     THEN finished \o SubSeq(sorted, 1,
                              IF Len(sorted) < room THEN Len(sorted) ELSE room)
                     ELSE finished
           final == SortByScore(filled, school)
       IN /\ traversals' = sorted
          /\ finished' = final
          /\ solution' = final[1]
          /\ IF Len(final[1].assignments) = 0
             THEN /\ pc' = "school"
                  /\ school_i' = school_i + 1
             ELSE /\ pc' = "check"
                  /\ UNCHANGED school_i
    /\ assign_i' = 1
    /\ UNCHANGED <<dbvars, run, args, school_coaches, graph, cycles, cycle_i,
                   attempts, next_tid, caps, culled, call, error>>

\* do_match with a single loop: each tuple is added as soon as it is checked
CheckAssignmentThenAdd ==
    /\ pc = "check"
    /\ assign_i <= Len(solution.assignments)
    /\ LET assign == solution.assignments[assign_i]
           bad == check_assignment(schools, students, coaches, assignments, assign)
           db == add_assignment(students, coaches, assignments, assign, FALSE, None)
       IN IF bad # None
          THEN /\ pc' = "failed"
               /\ error' = bad
               /\ UNCHANGED <<students, coaches, assignments, assign_i, school_i>>
          ELSE /\ error' = error
               /\ students' = db.students
               /\ coaches' = db.coaches
               /\ assignments' = db.assignments
               /\ IF assign_i = Len(solution.assignments)
                  THEN pc' = "school" /\ assign_i' = assign_i /\ school_i' = school_i + 1
                  ELSE pc' = pc /\ assign_i' = assign_i + 1 /\ UNCHANGED school_i
    /\ UNCHANGED <<schools, teachers, coach_list, disk, run, args, matchvars, caps, culled, call>>

\* do_match: rsdb.check_assignment(assign), one tuple of the first loop
CheckAssignment ==
    /\ pc = "check"
    /\ assign_i <= Len(solution.assignments)
    /\ LET bad == check_assignment(schools, students, coaches, assignments,
                                   solution.assignments[assign_i])
       IN IF bad # None
          THEN /\ pc' = "failed"
               /\ error' = bad
               /\ UNCHANGED assign_i
          ELSE /\ error' = error
               /\ IF assign_i = Len(solution.assignments)
                  THEN pc' = "add" /\ assign_i' = 1
                  ELSE pc' = pc /\ assign_i' = assign_i + 1
    /\ UNCHANGED <<schools, teachers, students, coaches, coach_list, assignments, disk,
                   run, args, school_i, matchvars, caps, culled, call>>

\* do_match: rsdb.add_assignment(assign), one tuple of the second loop
AddAssignment ==
    /\ pc = "add"
    /\ assign_i <= Len(solution.assignments)
    /\ LET db == add_assignment(students, coaches, assignments,
                                solution.assignments[assign_i], FALSE, None)
       IN /\ students' = db.students
          /\ coaches' = db.coaches
          /\ assignments' = db.assignments
          /\ error' = db.error
          /\ IF db.error # None
             THEN pc' = "failed" /\ UNCHANGED <<assign_i, school_i>>
             ELSE IF assign_i = Len(solution.assignments)
             THEN pc' = "school" /\ assign_i' = assign_i /\ school_i' = school_i + 1
             ELSE pc' = pc /\ assign_i' = assign_i + 1 /\ UNCHANGED school_i
    /\ UNCHANGED <<schools, teachers, coach_list, disk, run, args, matchvars, caps, culled, call>>

Next ==
    \/ DoMatch
    \/ SelectSchool
    \/ Save
    \/ FindCycles
    \/ FindSolutionsBegin
    \/ Round
    \/ FindSolutionsEnd
    \/ CheckAssignment
    \/ AddAssignment

Spec == Init /\ [][Next]_vars

\* the same program with the caps of find_solutions scaled down
InitCull ==
    /\ Database
    /\ Idle
    /\ caps = [max_finished |-> SmallMaxFinished, max_unfinished |-> SmallMaxUnfinished]

SpecCull == InitCull /\ [][Next]_vars

\* the same program with the finished cap alone scaled down: the active list
\* never reaches max_unfinished, so no cull comes between two rounds
InitFinishedCap ==
    /\ Database
    /\ Idle
    /\ caps = [max_finished |-> SmallMaxFinished, max_unfinished |-> MAX_UNFINISHED]

SpecFinishedCap == InitFinishedCap /\ [][Next]_vars

\* a database of school A and of a school E without teachers and students
SchoolsWithEmpty ==
    <<InitSchools[1], [name |-> "E", students |-> <<>>, teachers |-> <<>>]>>

InitWithEmpty ==
    /\ schools = SchoolsWithEmpty
    /\ teachers = InitTeachers
    /\ coach_list = <<C2, C1>>
    /\ students = (S1 :> Student(T1, OnDay(0, Slots)))
                  @@ (S2 :> Student(T1, OnDay(0, TwoBlocks)))
                  @@ (S3 :> Student(T2, OnDay(0, Block0)))
    /\ coaches = (C1 :> Coach(<<"A", "B">>, {}, 2, 1, OnDay(0, Slots)))
                 @@ (C2 :> Coach(<<"B", "A">>, {}, 1, 1, OnDay(0, Block0)))
    /\ disk = save(students, coaches, <<>>)
    /\ assignments = <<>>
    /\ Idle
    /\ caps = [max_finished |-> MAX_FINISHED, max_unfinished |-> MAX_UNFINISHED]

SpecWithEmpty == InitWithEmpty /\ [][Next]_vars

\* the slots of the block of SLOTS_PER_ASSIGNMENT slots that starts at slot b
BlockAt(b) == b .. (b + SLOTS_PER_ASSIGNMENT - 1)

\* the slots a block can start at
BlockStarts == 0 .. (NumSlots - SLOTS_PER_ASSIGNMENT)

\* a database of one school with one teacher and one student, and one coach
\* without grade preference that takes one student on one day; the student
\* and the coach are each available on one block of one day
InitOneBlock ==
    /\ schools = <<[name |-> "A", students |-> <<S1>>, teachers |-> <<T1>>]>>
    /\ \E grade \in {"1", "2"} : teachers = (T1 :> [grade |-> grade])
    /\ coach_list = <<C1>>
    /\ \E d \in Days, b \in BlockStarts :
          students = (S1 :> Student(T1, OnDay(d, BlockAt(b))))
    /\ \E d \in Days, b \in BlockStarts,
            coach_schools \in {<<"A", "B">>, <<"B", "A">>} :
          coaches = (C1 :> Coach(coach_schools, {}, 1, 1, OnDay(d, BlockAt(b))))
    /\ disk = save(students, coaches, <<>>)
    /\ assignments = <<>>
    /\ Idle
    /\ caps = [max_finished |-> MAX_FINISHED, max_unfinished |-> MAX_UNFINISHED]

SpecOneBlock == InitOneBlock /\ [][Next]_vars

\* assignments made by hand for the second coach: one on the first and one on
\* the last day
ManualTuples == <<(<<0, 0, T2, S3, C2>>), (<<LastDay, 0, T1, S2, C2>>)>>

\* add_assignment(assign, manual=True, timestamp='manual') of a list of tuples
RECURSIVE AddManual(_, _)
AddManual(db, tuples) ==
    IF tuples = <<>> THEN db
    ELSE AddManual(add_assignment(db.students, db.coaches, db.assignments,
                                  Head(tuples), TRUE, "manual"),
                   Tail(tuples))

\* a database file that was saved after assignments were added by hand: the
\* second coach takes one student on one day and holds none, one or two of
\* the manual assignments
InitStored ==
    /\ schools = InitSchools
    /\ teachers = InitTeachers
    /\ coach_list = <<C2, C1>>
    /\ \E on1 \in {EveryDay(Block0), OnDay(0, Slots)},
            num_students \in 1 .. 2, num_days \in 1 .. 2,
            onc \in {EveryDay(Block0), OnDay(0, Slots)},
            by_hand \in {<<>>, <<ManualTuples[1]>>, <<ManualTuples[2]>>, ManualTuples} :
          LET db == AddManual(
                  [students |-> (S1 :> Student(T1, on1))
                                @@ (S2 :> Student(T1, OnDay(0, TwoBlocks)))
                                @@ (S3 :> Student(T2, OnDay(0, Block0))),
                   coaches |-> (C1 :> Coach(<<"A", "B">>, {}, num_students, num_days, onc))
                               @@ (C2 :> Coach(<<"B", "A">>, {}, 1, 1, EveryDay(Block0))),
                   assignments |-> <<>>,
                   error |-> None],
                  by_hand)
          IN /\ students = db.students
             /\ coaches = db.coaches
             /\ assignments = db.assignments
             /\ disk = save(db.students, db.coaches, db.assignments)
    /\ Idle
    /\ caps = [max_finished |-> MAX_FINISHED, max_unfinished |-> MAX_UNFINISHED]

SpecStored == InitStored /\ [][Next]_vars

\* a database whose second-choice coach takes the grade of teacher T1 only
InitPreferredGrade ==
    /\ schools = InitSchools
    /\ teachers = InitTeachers
    /\ coach_list = <<C2, C1>>
    /\ \E on2 \in {OnDay(0, TwoBlocks), OnDay(0, Block0)},
            on3 \in {OnDay(0, Block0), OnDay(LastDay, Block0)},
            num_students \in 1 .. 2, num_days \in 1 .. 2 :
          /\ students = (S1 :> Student(T1, EveryDay(Block0)))
                         @@ (S2 :> Student(T1, on2))
                         @@ (S3 :> Student(T2, on3))
          /\ coaches = (C1 :> Coach(<<"A", "B">>, {}, num_students, num_days,
                                     OnDay(0, Slots)))
                        @@ (C2 :> Coach(<<"B", "A">>, {"1"}, 1, 1, EveryDay(Block0)))
          /\ disk = save(students, coaches, <<>>)
    /\ assignments = <<>>
    /\ Idle
    /\ caps = [max_finished |-> MAX_FINISHED, max_unfinished |-> MAX_UNFINISHED]

SpecPreferredGrade == InitPreferredGrade /\ [][Next]_vars

(***************************************************************************)
(* rsmatch/database.py called from outside do_match: check_assignment and  *)
(* add_assignment as the loops of from_path and of the input layer call    *)
(* them, on a database of two schools.                                     *)
(***************************************************************************)
\* school A with teacher T1 and its students, school B with teacher T2
TwoSchools ==
    <<[name |-> "A", students |-> <<S1, S2>>, teachers |-> <<T1>>],
      [name |-> "B", students |-> <<S3>>, teachers |-> <<T2>>]>>

\* the assignment tuples of the calls: the teacher is the student's teacher
ApiTuples ==
    {<<d, s, students[st].teacher, st, c>> :
        d \in {0, LastDay}, s \in {0, SLOTS_PER_ASSIGNMENT},
        st \in {S1, S2, S3}, c \in {C1, C2}}

InitDB ==
    /\ schools = TwoSchools
    /\ teachers = InitTeachers
    /\ coach_list = <<C1, C2>>
    /\ students = (S1 :> Student(T1, EveryDay(Slots)))
                  @@ (S2 :> Student(T1, OnDay(0, Slots)))
                  @@ (S3 :> Student(T2, EveryDay(Slots)))
    /\ coaches = (C1 :> Coach(<<"A", "B">>, {}, 2, 2, EveryDay(Slots)))
                 @@ (C2 :> Coach(<<"B", "A">>, {}, 2, 2, OnDay(0, Slots)))
    /\ disk = save(students, coaches, <<>>)
    /\ assignments = <<>>
    /\ caps = [max_finished |-> MAX_FINISHED, max_unfinished |-> MAX_UNFINISHED]
    /\ pc = "api"
    /\ run = 0
    /\ args = None
    /\ school_i = 0
    /\ school_coaches = <<>>
    /\ graph = None
    /\ cycles = <<>>
    /\ cycle_i = 0
    /\ traversals = <<>>
    /\ finished = <<>>
    /\ attempts = <<>>
    /\ next_tid = 1
    /\ solution = None
    /\ assign_i = 0
    /\ culled = 0
    /\ call = None
    /\ error = None

\* rsdb.check_assignment(assign): the ValueError, if any, reaches the caller
ApiCheck ==
    /\ pc = "api"
    /\ run < MaxCalls
    /\ \E assign \in ApiTuples :
          LET bad == check_assignment(schools, students, coaches, assignments, assign)
          IN /\ call' = [op |-> "check_assignment", assign |-> assign, manual |-> FALSE,
                         students |-> students, coaches |-> coaches,
                         assignments |-> assignments]
             /\ error' = bad
    /\ run' = run + 1
    /\ UNCHANGED <<dbvars, pc, args, school_i, matchvars, assign_i, caps, culled>>

\* rsdb.add_assignment(assign, manual=manual)
ApiAdd ==
    /\ pc = "api"
    /\ run < MaxCalls
    /\ \E assign \in ApiTuples, manual \in BOOLEAN :
          LET db == add_assignment(students, coaches, assignments, assign, manual, None)
          IN /\ call' = [op |-> "add_assignment", assign |-> assign, manual |-> manual,
                         students |-> students, coaches |-> coaches,
                         assignments |-> assignments]
             /\ students' = db.students
             /\ coaches' = db.coaches
             /\ assignments' = db.assignments
             /\ error' = db.error
    /\ run' = run + 1
    /\ UNCHANGED <<schools, teachers, coach_list, disk, pc, args, school_i, matchvars,
                   assign_i, caps, culled>>

NextDB ==
    \/ ApiCheck
    \/ ApiAdd

SpecDB == InitDB /\ [][NextDB]_vars

(***************************************************************************)
(* rsmatch/database.py: Metadata, times in minutes after midnight          *)
(***************************************************************************)
MaxHours == 23
MaxMinutes == 59

\* Metadata.__init__
minutes_per_slot == 15
start_time == 8 * 60 + 30
end_time == 15 * 60 + 30
afternoon == 12 * 60

\* Metadata.num_slots
Metadata_num_slots == (end_time - start_time) \div minutes_per_slot

\* the time time_to_slot works with, after the 12-hour rule
curr_time(hours, minutes) ==
    LET given == hours * 60 + minutes
    IN IF given < start_time THEN given + afternoon ELSE given

\* time_to_slot without the 12-hour rule
time_to_slot_as_given(hours, minutes) ==
    LET given == hours * 60 + minutes
    IN IF given > end_time THEN [error |-> "ValueError", slot |-> None]
       ELSE [error |-> None, slot |-> (given - start_time) \div minutes_per_slot]

\* Metadata.time_to_slot(time_str), time_str = "hours:minutes"
time_to_slot(hours, minutes) ==
    LET curr == curr_time(hours, minutes)
    IN IF curr > end_time THEN [error |-> "ValueError", slot |-> None]
       ELSE [error |-> None, slot |-> (curr - start_time) \div minutes_per_slot]

\* a caller of the input layer: meta.time_to_slot(time_str)
InitTime ==
    /\ schools = <<>>
    /\ teachers = <<>>
    /\ coach_list = <<>>
    /\ students = <<>>
    /\ coaches = <<>>
    /\ disk = save(students, coaches, <<>>)
    /\ assignments = <<>>
    /\ caps = [max_finished |-> MAX_FINISHED, max_unfinished |-> MAX_UNFINISHED]
    /\ pc = "time"
    /\ run = 0
    /\ args = None
    /\ school_i = 0
    /\ school_coaches = <<>>
    /\ graph = None
    /\ cycles = <<>>
    /\ cycle_i = 0
    /\ traversals = <<>>
    /\ finished = <<>>
    /\ attempts = <<>>
    /\ next_tid = 1
    /\ solution = None
    /\ assign_i = 0
    /\ culled = 0
    /\ call = None
    /\ error = None

TimeToSlot ==
    /\ pc = "time"
    /\ \E hours \in 0 .. MaxHours, minutes \in 0 .. MaxMinutes :
          LET r == time_to_slot(hours, minutes)
          IN /\ call' = [op |-> "time_to_slot", hours |-> hours, minutes |-> minutes,
                         slot |-> r.slot]
             /\ error' = r.error
    /\ run' = 1
    /\ UNCHANGED <<dbvars, pc, args, school_i, matchvars, assign_i, caps, culled>>

SpecTime == InitTime /\ [][TimeToSlot]_vars

\* a database of two schools with students: school A (teacher T1 with S1 and
\* S2) and school B (teacher T2 with S3); the first coach names A first and
\* B second, the second coach B first and A second
InitTwoSchools ==
    /\ schools = TwoSchools
    /\ teachers = InitTeachers
    /\ coach_list = <<C2, C1>>
    /\ \E on2 \in {OnDay(0, Block0), OnDay(LastDay, Block0)},
            on3 \in {OnDay(0, BlockAt(SLOTS_PER_ASSIGNMENT)), OnDay(LastDay, Block0)},
            num_students \in 1 .. 2, num_days \in 1 .. 2 :
          /\ students = (S1 :> Student(T1, OnDay(0, Block0)))
                        @@ (S2 :> Student(T1, on2))
                        @@ (S3 :> Student(T2, on3))
          /\ coaches = (C1 :> Coach(<<"A", "B">>, {}, num_students, num_days,
                                     EveryDay(Slots)))
                       @@ (C2 :> Coach(<<"B", "A">>, {}, 1, 1, OnDay(0, Block0)))
          /\ disk = save(students, coaches, <<>>)
    /\ assignments = <<>>
    /\ Idle
    /\ caps = [max_finished |-> MAX_FINISHED, max_unfinished |-> MAX_UNFINISHED]

SpecTwoSchools == InitTwoSchools /\ [][Next]_vars

(***************************************************************************)
(* Properties of the search. The live Coach and Student objects are those  *)
(* the root traversal was created from as long as the driver is in the     *)
(* loop of find_solutions or in the validation loop of do_match.           *)
(***************************************************************************)
Searching == pc \in {"round", "check"}

\* P of every traversal in the active and in the finished list
AllKept(P(_)) ==
    /\ \A i \in 1 .. Len(traversals) : P(traversals[i])
    /\ \A i \in 1 .. Len(finished) : P(finished[i])

\* P of every traversal add_cycle created in the last round, returned or not
AllCreated(P(_)) ==
    \A i \in 1 .. Len(attempts) : attempts[i].created => P(attempts[i].child)

\* the slots of the block of an assignment tuple
BlockOf(a) == a[2] .. (a[2] + SLOTS_PER_ASSIGNMENT - 1)

\* the graph nodes of the block of an assignment tuple
NodesOf(a) == {<<a[1], s, a[3]>> : s \in BlockOf(a)}

\* the nodes of a cycle
CycleNodes(cycle) == Range(Tail(cycle))

\* C1: in every traversal of the active and finished lists, two assignments
\* of the same teacher and day have disjoint slot blocks, so no (day, slot,
\* teacher) node is claimed twice and assignments that share a (day, slot)
\* pair have different teachers
NodeExclusive(t) ==
    \A i, j \in 1 .. Len(t.assignments) :
        i # j =>
            /\ NodesOf(t.assignments[i]) \cap NodesOf(t.assignments[j]) = {}
            /\ (<<t.assignments[i][1], t.assignments[i][2]>>
                  = <<t.assignments[j][1], t.assignments[j][2]>>
                => t.assignments[i][3] # t.assignments[j][3])
C1_NodeExclusivity == AllKept(NodeExclusive)

\* a cycle was abandoned because another assignment of the traversal holds
\* one of its nodes, while the traversal kept its earlier assignment
C1_Witness ==
    /\ pc = "round"
    /\ \E i \in 1 .. Len(attempts) :
          /\ attempts[i].created
          /\ ~attempts[i].accepted
          /\ CycleNodes(attempts[i].cycle) \cap attempts[i].before.nodes_used # {}
          /\ \E k \in 1 .. Len(traversals) :
                /\ traversals[k].tid = attempts[i].before.tid
                /\ Len(traversals[k].assignments) > 0

\* C2: in every traversal, kept or created and discarded, a coach's
\* assignments lie on at most num_days distinct days and hold at most
\* num_students distinct students
WithinCapacity(t) ==
    \A c \in Range(school_coaches) :
        LET mine == {i \in 1 .. Len(t.assignments) : t.assignments[i][5] = c}
        IN /\ Cardinality({t.assignments[i][1] : i \in mine}) <= coaches[c].num_days
           /\ Cardinality({t.assignments[i][4] : i \in mine}) <= coaches[c].num_students
C2_CoachCapacity == AllKept(WithinCapacity) /\ AllCreated(WithinCapacity)

\* a coach of day capacity 1 that holds a visit is offered a cycle on another
\* day and is refused
C2_Witness ==
    /\ pc = "round"
    /\ \E i \in 1 .. Len(attempts) :
          LET c == attempts[i].cycle[1]
              b == attempts[i].before
          IN /\ coaches[c].num_days = 1
             /\ ~attempts[i].created
             /\ \E k \in 1 .. Len(b.assignments) :
                   /\ b.assignments[k][5] = c
                   /\ b.assignments[k][1] # attempts[i].cycle[2][1]

\* C3: no student occurs in two assignment tuples of a traversal or of the
\* stored assignment list, and a student whose assigned flag was set before
\* the search is in no assignment of a traversal
StudentsOnce(t) ==
    /\ \A i, j \in 1 .. Len(t.assignments) :
          i # j => t.assignments[i][4] # t.assignments[j][4]
    /\ Searching => \A i \in 1 .. Len(t.assignments) :
                        ~students[t.assignments[i][4]].assigned
C3_StudentOnce ==
    /\ AllKept(StudentsOnce)
    /\ AllCreated(StudentsOnce)
    /\ \A i, j \in 1 .. Len(assignments) :
          i # j => assignments[i].assign[4] # assignments[j].assign[4]

\* a cycle is accepted on a node whose student list starts with an already
\* assigned student
C3_Witness ==
    /\ pc = "round"
    /\ \E i \in 1 .. Len(attempts) :
          /\ attempts[i].accepted
          /\ students[graph.students[attempts[i].cycle[2]][1]].assigned

\* C4: in every traversal of the active and finished lists every accepted
\* cycle is on a (coach, day) pair of its own, and none is on a day the
\* coach already holds a committed assignment on; an active traversal's
\* used days contain the coach's committed days
OneVisitPerDay(t) ==
    /\ Cardinality({<<t.assignments[i][5], t.assignments[i][1]>> :
                       i \in 1 .. Len(t.assignments)}) = t.num_cycles
    /\ Searching =>
          /\ \A i \in 1 .. Len(t.assignments) :
                t.assignments[i][1] \notin coaches[t.assignments[i][5]].assigned_days
          /\ ~t.done => \A c \in Range(school_coaches) :
                           coaches[c].assigned_days \subseteq t.coach_days[c]
C4_OneVisitPerDay == AllKept(OneVisitPerDay)

\* a coach with days and students to spare is refused a cycle because it
\* lies on a day the coach already visits in the traversal
C4_Witness ==
    /\ pc = "round"
    /\ \E i \in 1 .. Len(attempts) :
          LET c == attempts[i].cycle[1]
              b == attempts[i].before
              cyc == Tail(attempts[i].cycle)
          IN /\ ~attempts[i].created
             /\ b.coach_day_count[c] # 0
             /\ (Len(cyc) \div SLOTS_PER_ASSIGNMENT) <= b.coach_student_count[c]
             /\ cyc[1][1] \in b.coach_days[c]
             /\ \E k \in 1 .. Len(b.assignments) :
                   b.assignments[k][5] = c /\ b.assignments[k][1] = cyc[1][1]

\* C5: the coach is available (1) on every slot of the block of every
\* assignment of every traversal
CoachAvailable(t) ==
    \A i \in 1 .. Len(t.assignments) :
        \A s \in BlockOf(t.assignments[i]) :
            coaches[t.assignments[i][5]].schedule[t.assignments[i][1]][s] = 1
C5_CoachAvailability == Searching => AllKept(CoachAvailable)

\* C6: the teacher of every assignment of every traversal teaches a grade of
\* the coach's preference set, unless that set is empty
GradePreferred(t) ==
    \A i \in 1 .. Len(t.assignments) :
        LET grades == coaches[t.assignments[i][5]].grades
        IN grades = {} \/ teachers[t.assignments[i][3]].grade \in grades
C6_GradePreference == AllKept(GradePreferred)

\* a coach with a grade preference holds an assignment while it is available
\* on a node of a teacher of another grade
C6_Witness ==
    /\ pc = "round"
    /\ \E k \in 1 .. Len(traversals) :
          \E i \in 1 .. Len(traversals[k].assignments) :
             LET c == traversals[k].assignments[i][5]
             IN /\ coaches[c].grades # {}
                /\ \E n \in DOMAIN graph.students :
                      /\ teachers[n[3]].grade \notin coaches[c].grades
                      /\ coaches[c].schedule[n[1]][n[2]] = 1

\* C7: the student of every assignment of every traversal is in the student
\* list of every node of the assignment's block
StudentWholeBlock(t) ==
    \A i \in 1 .. Len(t.assignments) :
        \A n \in NodesOf(t.assignments[i]) :
            /\ n \in DOMAIN graph.students
            /\ t.assignments[i][4] \in Range(graph.students[n])
C7_StudentWholeBlock ==
    Searching => AllKept(StudentWholeBlock) /\ AllCreated(StudentWholeBlock)

\* a cycle is accepted although the first unassigned student of its first
\* node is missing from the second node of the block
C7_Witness ==
    /\ pc = "round"
    /\ \E i \in 1 .. Len(attempts) :
          LET cyc == Tail(attempts[i].cycle)
              first == graph.students[cyc[1]][1]
          IN /\ attempts[i].accepted
             /\ first \in attempts[i].before.unassigned_students
             /\ first \notin Range(graph.students[cyc[2]])

\* the stored tuples
Stored == {assignments[k].assign : k \in 1 .. Len(assignments)}

\* the messages of the errors check_assignment raises
CheckErrors ==
    {"Coach not available", "Student not available", "Duplicate assignment",
     "Student already assigned", "Coach already assigned",
     "Coach already assigned to a different school"}

\* C8: no assignment of a traversal has a block that overlaps the block of a
\* committed assignment of the same teacher and day
ClearOfCommitted(t) ==
    \A i \in 1 .. Len(t.assignments) :
        \A c \in Stored : NodesOf(t.assignments[i]) \cap NodesOf(c) = {}
C8_NoReoffer == Searching => AllKept(ClearOfCommitted)

\* C9: every tuple of the winning solution passes check_assignment against
\* the live state when do_match starts to validate it
C9_SolutionPassesCheck ==
    pc = "check" =>
        \A i \in 1 .. Len(solution.assignments) :
            check_assignment(schools, students, coaches, assignments,
                             solution.assignments[i]) = None

\* C10: while do_match validates, no tuple of the solution is stored; when it
\* starts to add, every tuple of the solution passes check_assignment; when a
\* validation failed, the error is the run's outcome and no tuple of the
\* solution is stored or marked on its student or coach
C10_ValidateBeforeCommit ==
    /\ pc = "check" => \A i \in 1 .. Len(solution.assignments) :
                          solution.assignments[i] \notin Stored
    /\ (pc = "add" /\ assign_i = 1) =>
          \A i \in 1 .. Len(solution.assignments) :
              check_assignment(schools, students, coaches, assignments,
                               solution.assignments[i]) = None
    /\ (pc = "failed" /\ error \in CheckErrors) =>
          \A i \in 1 .. Len(solution.assignments) :
              LET a == solution.assignments[i]
              IN /\ a \notin Stored
                 /\ ~students[a[4]].assigned
                 /\ a \notin coaches[a[5]].assignments
                 /\ a \notin {disk.assignments[k].assign :
                                 k \in 1 .. Len(disk.assignments)}

\* a validation failed on a later tuple of a solution whose first tuple
\* passes
C10_Witness ==
    /\ pc = "failed"
    /\ error \in CheckErrors
    /\ assign_i > 1
    /\ check_assignment(schools, students, coaches, assignments,
                        solution.assignments[1]) = None

\* the score of a traversal computed afresh for the school being processed
FreshScore(t) == ComputeScore(t, schools[school_i])

\* Python's a <= b of two score tuples
ScoreLeq(a, b) == ~TupleLess(b, a)

\* the finished list as find_solutions has it before the final sort: the
\* traversals that became Done, in the order they did, then the active ones
Filled ==
    LET room == caps.max_finished - Len(finished)
        rest == SortByScore(traversals, schools[school_i])
    IN IF room > 0
       THEN finished \o SubSeq(rest, 1, IF Len(rest) < room THEN Len(rest) ELSE room)
       ELSE finished

\* the index of the first element of seq with the least fresh score
EarliestBest(seq) ==
    CHOOSE k \in 1 .. Len(seq) :
        /\ \A j \in 1 .. Len(seq) : ScoreLeq(FreshScore(seq[k]), FreshScore(seq[j]))
        /\ \A j \in 1 .. (k - 1) : FreshScore(seq[j]) # FreshScore(seq[k])

\* C11: the step that ends find_solutions sets solution to the head of the
\* finished list, the finished list holds the traversals it held before the
\* sort, the solution's score is less than or equal to the score of every
\* traversal of the list, and of the traversals of that least score the
\* solution is the one that was first in the list before the sort
C11_BestOfFinished ==
    [][(pc = "round" /\ pc' # "round") =>
          /\ solution' = finished'[1]
          /\ {finished'[i].tid : i \in 1 .. Len(finished')}
               = {Filled[i].tid : i \in 1 .. Len(Filled)}
          /\ \A i \in 1 .. Len(finished') :
                ScoreLeq(FreshScore(solution'), FreshScore(finished'[i]))
          /\ solution'.tid = Filled[EarliestBest(Filled)].tid]_vars

\* find_solutions returned a solution from a finished list that holds another
\* traversal of the same score and a traversal of a greater score
C11_Witness ==
    /\ pc = "check"
    /\ Len(finished) >= 3
    /\ solution = finished[1]
    /\ finished[2].tid # solution.tid
    /\ FreshScore(finished[2]) = FreshScore(solution)
    /\ \E i \in 1 .. Len(finished) :
          TupleLess(FreshScore(solution), FreshScore(finished[i]))

\* a <= b of two 4-tuples in lexicographic order, written out
Lex4Leq(a, b) ==
    \/ a[1] < b[1]
    \/ a[1] = b[1] /\ a[2] < b[2]
    \/ a[1] = b[1] /\ a[2] = b[2] /\ a[3] < b[3]
    \/ a[1] = b[1] /\ a[2] = b[2] /\ a[3] = b[3] /\ a[4] <= b[4]

\* the students, the teachers and the days of a coach in the assignments of t
AssignedStudents(t) == {t.assignments[i][4] : i \in 1 .. Len(t.assignments)}
AssignedTeachers(t) == {t.assignments[i][3] : i \in 1 .. Len(t.assignments)}
VisitDays(t, c) ==
    {t.assignments[i][1] : i \in {k \in 1 .. Len(t.assignments) : t.assignments[k][5] = c}}

\* C12: the score of every traversal of the active and finished lists is a
\* 4-tuple whose first component is
\* the number of students of the school that are neither committed nor in an
\* assignment of the traversal, whose second component is the number of
\* teachers of the school in no assignment of the traversal, and whose fourth
\* component is the sum over the coaches of the search of the days of
\* capacity left; a cached score is that tuple, and the sorted finished list
\* is ascending in the lexicographic order of the tuples
ScoreComponents(t) ==
    LET school == schools[school_i]
        sc == FreshScore(t)
    IN /\ Len(sc) = 4
       /\ sc[1] = Cardinality({s \in Range(school.students) :
                                  ~students[s].assigned /\ s \notin AssignedStudents(t)})
       /\ sc[2] = Cardinality(Range(school.teachers) \ AssignedTeachers(t))
       /\ sc[4] = SumSeq([k \in 1 .. Len(school_coaches) |->
                     coaches[school_coaches[k]].num_days
                       - Cardinality(coaches[school_coaches[k]].assigned_days
                                       \cup VisitDays(t, school_coaches[k]))])
       /\ t.score_ # NoScore => t.score_ = sc
C12_ScoreTuple ==
    /\ Searching => AllKept(ScoreComponents)
    /\ pc = "check" =>
          \A i, j \in 1 .. Len(finished) :
              i < j => Lex4Leq(finished[i].score_, finished[j].score_)

\* the winning solution has assignments and a score with students and
\* teachers left unassigned and days of capacity left, and the finished list
\* holds traversals of different scores
C12_Witness ==
    /\ pc = "check"
    /\ solution.score_[1] > 0
    /\ solution.score_[2] > 0
    /\ solution.score_[4] > 0
    /\ \E i \in 1 .. Len(finished) : finished[i].score_ # solution.score_

\* the (day, slot) pairs of the assignments of t
SlotPairs(t) == {<<t.assignments[i][1], t.assignments[i][2]>> : i \in 1 .. Len(t.assignments)}

\* C13 as stated: the third component of the score is the number of
\* assignments whose (day, slot) pair is the pair of another assignment of the
\* traversal
SharedCount(t) ==
    FreshScore(t)[3] =
        Cardinality({i \in 1 .. Len(t.assignments) :
            \E j \in 1 .. Len(t.assignments) :
                /\ j # i
                /\ <<t.assignments[j][1], t.assignments[j][2]>>
                     = <<t.assignments[i][1], t.assignments[i][2]>>})
C13_SharedSlotCount == Searching => AllKept(SharedCount)

\* C13 amended: the third component of the score is the number of
\* assignments of the traversal less the number of distinct (day, slot) pairs
\* among them: of the assignments on one pair all but the first count
RepeatCount(t) ==
    FreshScore(t)[3] = Len(t.assignments) - Cardinality(SlotPairs(t))
C13_RepeatedSlotCount == Searching => AllKept(RepeatCount)

\* the winning solution holds two assignments on one (day, slot) pair and its
\* cached score counts one overlap
C13_Witness ==
    /\ pc = "check"
    /\ Len(solution.assignments) > Cardinality(SlotPairs(solution))
    /\ solution.score_[3] = 1

\* the traversals of the active and of the finished list
Kept == traversals \o finished

\* the cached score of t is the score computed afresh
CacheIsFresh(t) == t.score_ # NoScore => t.score_ = FreshScore(t)

\* the list with every cache invalidated
Invalidated(ts) == [i \in 1 .. Len(ts) |-> reset_score(ts[i])]

\* C15: a round of find_solutions, with its cull, its reset_score calls and
\* its release of the traversals that became Done, leaves the assignment
\* list, the unassigned students, the days total and so the fresh score of
\* every traversal it keeps as they were; every cached score is the score
\* computed afresh; and sorting the final finished list again after
\* reset_score of its elements leaves its order
C15_ScoreStable ==
    /\ [](Searching => AllKept(CacheIsFresh))
    /\ [](pc = "check" =>
            LET again == SortByScore(Invalidated(finished), schools[school_i])
            IN [k \in 1 .. Len(again) |-> again[k].tid]
                 = [k \in 1 .. Len(finished) |-> finished[k].tid])
    /\ [][pc = "round" =>
            \A i \in 1 .. Len(Kept) : \A j \in 1 .. Len(Kept') :
                Kept[i].tid = Kept'[j].tid =>
                    /\ Kept'[j].assignments = Kept[i].assignments
                    /\ Kept'[j].unassigned_students = Kept[i].unassigned_students
                    /\ Kept'[j].days_remaining = Kept[i].days_remaining
                    /\ ComputeScore(Kept'[j], schools[school_i]) = FreshScore(Kept[i])]_vars

\* after a cull, the winning solution is a Done traversal with its maps
\* released, next to a traversal of another score, and holds a cached score
C15_Witness ==
    /\ pc = "check"
    /\ culled > 0
    /\ solution.done
    /\ solution.coach_days = NoneMap
    /\ solution.score_ # NoScore
    /\ \E i \in 1 .. Len(finished) : finished[i].score_ # solution.score_

\* a database method was called from outside do_match and call records it
Called(op) == pc = "api" /\ run > 0 /\ call.op = op

\* the tuples stored when the last call was made
StoredBefore == {call.assignments[k].assign : k \in 1 .. Len(call.assignments)}

\* a < b of two assignment tuples in lexicographic order, written out
Lex5Less(a, b) ==
    \E k \in 1 .. 5 : a[k] < b[k] /\ \A m \in 1 .. (k - 1) : a[m] = b[m]

\* C16: add_assignment of a tuple that is stored leaves the assignment list,
\* with the stored entry's manual flag and timestamp, and every student and
\* coach as they were, and raises no error
C16_AddIdempotent ==
    (Called("add_assignment") /\ call.assign \in StoredBefore) =>
        /\ assignments = call.assignments
        /\ students = call.students
        /\ coaches = call.coaches
        /\ error = None

\* a stored tuple was added again with the other manual flag, after another
\* tuple was stored
C16_Witness ==
    /\ Called("add_assignment")
    /\ Len(call.assignments) >= 2
    /\ \E k \in 1 .. Len(call.assignments) :
          /\ call.assignments[k].assign = call.assign
          /\ call.assignments[k].manual # call.manual

\* C17: the stored assignment list is strictly ascending in the order of the
\* tuples (day, slot, teacher, student, coach), so it holds no tuple twice
C17_SortedNoDuplicates ==
    \A i, j \in 1 .. Len(assignments) :
        i < j => Lex5Less(assignments[i].assign, assignments[j].assign)

\* the last add_assignment stored its tuple between two stored tuples
C17_Witness ==
    /\ Called("add_assignment")
    /\ Len(assignments) = Len(call.assignments) + 1
    /\ \E k \in 2 .. (Len(assignments) - 1) : assignments[k].assign = call.assign

\* C18: check_assignment raises an error for a tuple whose (day, slot,
\* teacher) is the (day, slot, teacher) of a stored tuple
C18_SlotOccupied ==
    (/\ Called("check_assignment")
     /\ \E c \in Stored : <<c[1], c[2], c[3]>> = <<call.assign[1], call.assign[2], call.assign[3]>>)
        => error # None

\* C19: check_assignment raises an error for a tuple whose coach holds a
\* stored tuple on the same day with a teacher of another school
C19_CrossSchool ==
    (/\ Called("check_assignment")
     /\ \E c \in Stored :
           /\ c[5] = call.assign[5]
           /\ c[1] = call.assign[1]
           /\ find_school(schools, c[3]) # find_school(schools, call.assign[3]))
        => error # None

\* do_match is at a school without students or without eligible coaches
AtEmptySchool ==
    /\ pc \in {"find_cycles", "find_solutions", "round", "check", "add", "failed"}
    /\ school_i \in 1 .. Len(schools)
    /\ \/ Len(schools[school_i].students) = 0
       \/ school_coaches = <<>>

\* C20: at a school without students or without eligible coaches do_match
\* raises no error and has no assignment to validate or to add
C20_EmptySchool == AtEmptySchool => pc \notin {"failed", "check", "add"}

\* the database file the run was started on holds no assignment and has the
\* student and the coach available on the block at slot b of day d and
\* nowhere else, and the coach was selected for the school
OneBlockRun(d, b) ==
    /\ run > 0
    /\ school_coaches = <<C1>>
    /\ disk.assignments = <<>>
    /\ disk.students[S1].schedule = Schedule(OnDay(d, BlockAt(b)))
    /\ disk.coaches[C1].schedule = Schedule(OnDay(d, BlockAt(b)))

\* C21: with one student of one teacher and one coach of capacity one
\* student and one day, both available on one block of one day and nowhere
\* else, find_cycles yields the one cycle of the coach and the block's
\* nodes, the solution of find_solutions is the one assignment (day, first
\* slot of the block, teacher, student, coach), do_match raises no error and
\* stores that assignment
C21_ScenarioA ==
    \A d \in Days, b \in BlockStarts :
        OneBlockRun(d, b) =>
            /\ pc # "failed"
            /\ pc \in {"find_solutions", "round", "check", "add"} =>
                  cycles = <<(<<C1>> \o [k \in 1 .. SLOTS_PER_ASSIGNMENT |->
                                            <<d, b + k - 1, T1>>])>>
            /\ pc \in {"check", "add"} =>
                  solution.assignments = <<(<<d, b, T1, S1, C1>>)>>
            /\ (pc = "school" /\ school_i > 1) => Stored = {<<d, b, T1, S1, C1>>}

\* the scenario with the block at slots 2 and 3 of day 0: do_match is about
\* to add the solution's one assignment (0, 2, teacher, student, coach)
C21_Witness ==
    /\ OneBlockRun(0, 2)
    /\ pc = "add"
    /\ Len(cycles) = 1
    /\ solution.assignments = <<(<<0, 2, T1, S1, C1>>)>>

\* the identity the i-th add_cycle call of the last round gave to its child
ChildTid(i) == next_tid - Len(attempts) + i - 1

\* the positions in the active list of the child the i-th call returned
ReturnedAt(i) == {k \in 1 .. Len(traversals) : traversals[k].tid = ChildTid(i)}

\* the number of groups of slots_per_assignment nodes of a cycle
NumGroups(cycle) == Len(Tail(cycle)) \div SLOTS_PER_ASSIGNMENT

\* the three pre-checks of add_cycle on the traversal as it was before the call
PreChecks(a) ==
    LET c == a.cycle[1]
    IN /\ a.before.coach_day_count[c] # 0
       /\ NumGroups(a.cycle) <= a.before.coach_student_count[c]
       /\ a.cycle[2][1] \notin a.before.coach_days[c]

\* C22: after a round, the child of an add_cycle call is in the active list
\* exactly when the three pre-checks passed on the traversal and the loop
\* over the groups committed a student for every group; the child then holds
\* the parent's assignments followed by one assignment per group, on the
\* group's first node, of the cycle's coach and of a student the parent had
\* unassigned; the cycle's day is added to the coach's used days, and the
\* coach's day count and the days total are one less than the parent's
C22_NoPartialAcceptance ==
    pc = "round" =>
        \A i \in 1 .. Len(attempts) :
            LET a == attempts[i]
                b == a.before
                c == a.cycle[1]
                cyc == Tail(a.cycle)
                n == Len(b.assignments)
                committed == Len(a.child.assignments) - n
            IN /\ (ReturnedAt(i) # {}) <=> (PreChecks(a) /\ committed = NumGroups(a.cycle))
               /\ Cardinality(ReturnedAt(i)) <= 1
               /\ \A k \in ReturnedAt(i) :
                     LET child == traversals[k]
                     IN /\ Len(child.assignments) = n + NumGroups(a.cycle)
                        /\ SubSeq(child.assignments, 1, n) = b.assignments
                        /\ \A g \in 1 .. NumGroups(a.cycle) :
                              LET asg == child.assignments[n + g]
                              IN /\ <<asg[1], asg[2], asg[3]>>
                                      = cyc[(g - 1) * SLOTS_PER_ASSIGNMENT + 1]
                                 /\ asg[4] \in b.unassigned_students
                                 /\ asg[5] = c
                        /\ child.coach_days[c] = b.coach_days[c] \cup {cyc[1][1]}
                        /\ child.coach_day_count[c] = b.coach_day_count[c] - 1
                        /\ child.days_remaining = b.days_remaining - 1

\* in one round a cycle of two groups was accepted on one traversal and
\* abandoned on another after its first group had received a student
C22_Witness ==
    /\ pc = "round"
    /\ \E i, j \in 1 .. Len(attempts) :
          /\ NumGroups(attempts[i].cycle) = 2
          /\ ReturnedAt(i) # {}
          /\ ReturnedAt(j) = {}
          /\ PreChecks(attempts[j])
          /\ Len(attempts[j].child.assignments) > Len(attempts[j].before.assignments)

\* the state of a traversal that add_cycle copies into a child
BranchState(t) ==
    <<t.assignments, t.unassigned_students, t.assigned_students,
      t.days_remaining, t.students_remaining>>

\* the per-branch maps a Done traversal releases
BranchMaps(t) ==
    <<t.coach_student_count, t.coach_day_count, t.coach_days, t.nodes_used>>

\* C23: after every add_cycle call, whether it returned a child, refused the
\* cycle or abandoned a child, the traversal it was called on has the
\* assignment list, the unassigned and assigned students and the days and
\* students totals it had before the call, and its per-branch maps are as
\* before unless it was marked Done and they were released; and no step of
\* the search changes any of these in a traversal that is kept, whatever
\* happens to its children
C23_ParentUnchanged ==
    /\ [](pc = "round" =>
            \A i \in 1 .. Len(attempts) :
                LET a == attempts[i]
                IN /\ a.self.tid = a.before.tid
                   /\ BranchState(a.self) = BranchState(a.before)
                   /\ IF a.self.done
                      THEN BranchMaps(a.self) = <<NoneMap, NoneMap, NoneMap, NoneSet>>
                      ELSE BranchMaps(a.self) = BranchMaps(a.before))
    /\ [][Searching =>
            \A i \in 1 .. Len(Kept) : \A j \in 1 .. Len(Kept') :
                Kept[i].tid = Kept'[j].tid =>
                    /\ BranchState(Kept'[j]) = BranchState(Kept[i])
                    /\ Kept'[j].done \/ BranchMaps(Kept'[j]) = BranchMaps(Kept[i])]_vars

\* in one round add_cycle abandoned a child that had received a student, on
\* a traversal that stays active, and returned a child on another traversal
C23_Witness ==
    /\ pc = "round"
    /\ \E i, j \in 1 .. Len(attempts) :
          /\ attempts[i].created
          /\ ~attempts[i].accepted
          /\ Len(attempts[i].child.assignments) > Len(attempts[i].before.assignments)
          /\ \E k \in 1 .. Len(traversals) : traversals[k].tid = attempts[i].before.tid
          /\ attempts[j].accepted

\* the identities of the traversals of a list
Tids(ts) == {ts[k].tid : k \in 1 .. Len(ts)}

\* the positions of an identity in a list
Places(ts, tid) == {k \in 1 .. Len(ts) : ts[k].tid = tid}

\* C24: during the loop of find_solutions no active traversal is Done and
\* every finished one is, so add_cycle is never called on a Done traversal;
\* no traversal is in the finished list twice or in both lists; after a
\* round, a traversal the round found Done is in the finished list once and
\* not in the active list, and every other attempted traversal is in the
\* active list once; and no step of the search clears the done flag of a
\* traversal or brings a finished traversal back into the active list
C24_DoneIsFinal ==
    /\ [](pc = "round" =>
            /\ \A k \in 1 .. Len(traversals) : ~traversals[k].done
            /\ \A k \in 1 .. Len(finished) : finished[k].done
            /\ Cardinality(Tids(finished)) = Len(finished)
            /\ Cardinality(Tids(traversals)) = Len(traversals)
            /\ Tids(finished) \cap Tids(traversals) = {}
            /\ \A i \in 1 .. Len(attempts) :
                  LET a == attempts[i]
                  IN /\ ~a.before.done
                     /\ Cardinality(Places(finished, a.self.tid))
                          = (IF a.self.done THEN 1 ELSE 0)
                     /\ Cardinality(Places(traversals, a.self.tid))
                          = (IF a.self.done THEN 0 ELSE 1))
    /\ [][pc = "round" =>
            /\ \A i \in 1 .. Len(Kept) : \A j \in 1 .. Len(Kept') :
                  (Kept[i].tid = Kept'[j].tid /\ Kept[i].done) => Kept'[j].done
            /\ pc' = "round" => Tids(finished) \cap Tids(traversals') = {}
            /\ Tids(finished) \subseteq Tids(finished')]_vars

\* a round found one traversal Done and moved it to the finished list, which
\* holds a traversal of an earlier round, and left another in the active list
C24_Witness ==
    /\ pc = "round"
    /\ \E i, j \in 1 .. Len(attempts) :
          /\ attempts[i].self.done
          /\ ~attempts[j].self.done
          /\ Places(finished, attempts[i].self.tid) # {}
          /\ Places(traversals, attempts[j].self.tid) # {}
    /\ \E k \in 1 .. Len(finished) :
          \A i \in 1 .. Len(attempts) : finished[k].tid # attempts[i].self.tid

\* the terminal condition written out on the traversal's own totals and set
OwnTerminal(t) ==
    t.days_remaining = 0 \/ t.students_remaining = 0 \/ t.unassigned_students = {}

\* C25: after every add_cycle call of a round, accepted, refused or
\* abandoned, the traversal it was called on is Done exactly when its own
\* days total is 0, or its own students total is 0, or its own set of
\* unassigned students is empty; and every traversal the loop has moved to
\* the finished list satisfies that condition
C25_DoneIffTerminal ==
    pc = "round" =>
        /\ \A i \in 1 .. Len(attempts) :
              attempts[i].self.done <=> OwnTerminal(attempts[i].self)
        /\ \A k \in 1 .. Len(finished) : OwnTerminal(finished[k])

\* add_cycle returned a child that meets the terminal condition on a
\* traversal that does not and stays active, and the finished list holds a
\* traversal that became Done with days and students to spare and no student
\* left unassigned
C25_Witness ==
    /\ pc = "round"
    /\ \E i \in 1 .. Len(attempts) :
          /\ attempts[i].accepted
          /\ OwnTerminal(attempts[i].child)
          /\ ~attempts[i].self.done
    /\ \E k \in 1 .. Len(finished) :
          /\ finished[k].done
          /\ finished[k].days_remaining # 0
          /\ finished[k].students_remaining # 0
          /\ finished[k].unassigned_students = {}

\* C26: add_cycle called on a traversal whose days total is 0, or whose
\* students total is 0, or that has no unassigned student, returns no child:
\* after the round the active list holds no child of that call
C26_TerminalAcceptsNothing ==
    pc = "round" =>
        \A i \in 1 .. Len(attempts) :
            OwnTerminal(attempts[i].before) => ReturnedAt(i) = {}

\* do_match is in one of its two loops over the solution's assignments
Committing == pc \in {"check", "add"}

\* C27 as stated, in its weakest reading: the traversal do_match commits is
\* Done, or at least meets the terminal condition
C27_CommitsTerminal == Committing => (solution.done \/ OwnTerminal(solution))

\* C27 amended: the traversal do_match validates and commits for a school is
\* the head of the sorted finished list, which is either a Done traversal or
\* a traversal that was still active when the loop over the cycles ended;
\* every add step stores the next tuple of that one traversal and nothing
\* else, and no other step of the school's run changes the stored tuples
C27_CommitsHeadOfFinished ==
    /\ [](Committing =>
            /\ solution = finished[1]
            /\ solution.done \/ solution.tid \in Tids(traversals))
    /\ [][pc = "add" =>
            /\ solution' = solution
            /\ Stored' = Stored \cup {solution.assignments[assign_i]}]_vars
    /\ [][(pc \in {"find_cycles", "find_solutions", "round", "check"}) =>
            Stored' = Stored]_vars

\* do_match has stored the first of two tuples of a solution that was never
\* marked Done and has days, students and an unassigned student to spare
C27_Witness ==
    /\ pc = "add"
    /\ assign_i = 2
    /\ ~solution.done
    /\ ~OwnTerminal(solution)
    /\ solution.assignments[1] \in Stored
    /\ solution.assignments[2] \notin Stored

\* the loop of find_solutions is at the head of a round with the finished
\* list at the cap
AtFinishedCap == pc = "round" /\ Len(finished) >= caps.max_finished

\* C28: when the finished list holds max_finished traversals at the head of
\* a round, the next step leaves the loop: no add_cycle call is made, no
\* child is created, the cycle index does not advance and the active list
\* holds the traversals it held
C28_StopAtFinishedCap ==
    [][AtFinishedCap =>
          /\ pc' # "round"
          /\ attempts' = attempts
          /\ next_tid' = next_tid
          /\ cycle_i' = cycle_i
          /\ Tids(traversals') = Tids(traversals)]_vars

\* find_solutions left its loop with max_finished Done traversals and with
\* cycles of the list not yet offered
C28_Witness ==
    /\ pc = "check"
    /\ cycle_i <= Len(cycles)
    /\ Cardinality({k \in 1 .. Len(finished) : finished[k].done}) >= caps.max_finished

\* C29: at every point of find_solutions the finished list holds at most
\* max_finished traversals.  The code tests the list against the cap at the
\* head of a round only, and a round moves every traversal that turned Done
\* into the list, so the list passes the cap inside the round that reaches it.
C29_FinishedWithinCap == Len(finished) <= caps.max_finished

\* the round about to start culls the active list
CullDue ==
    /\ pc = "round"
    /\ cycle_i <= Len(cycles)
    /\ Len(finished) < caps.max_finished
    /\ Len(traversals) >= caps.max_unfinished

\* the traversals this round offers its cycle to
Offered == {attempts'[j].before.tid : j \in 1 .. Len(attempts')}

\* C30: when the active list has reached max_unfinished at the head of a
\* round, the round offers its cycle to max_finished traversals of it, each
\* discarded traversal scores at least as high as each retained one, and the
\* discarded ones are in neither list afterwards; no step brings back a
\* traversal that is in neither list (new traversals carry new ids).
C30_CullKeepsBest ==
    /\ [][CullDue =>
            LET school == schools[school_i]
                retained == {i \in 1 .. Len(traversals) : traversals[i].tid \in Offered}
                discarded == (1 .. Len(traversals)) \ retained
            IN /\ Len(attempts') = caps.max_finished
               /\ Cardinality(retained) = caps.max_finished
               /\ \A j \in 1 .. Len(attempts') : \E i \in retained :
                      attempts'[j].before = reset_score(traversals[i])
               /\ \A j \in 1 .. Len(attempts') - 1 :
                      ScoreLeq(score(attempts'[j].before, school),
                               score(attempts'[j + 1].before, school))
               /\ \A d \in discarded : \A r \in retained :
                      ScoreLeq(score(traversals[r], school), score(traversals[d], school))
               /\ \A d \in discarded :
                      traversals[d].tid \notin Tids(traversals') \cup Tids(finished')]_vars
    /\ [][Tids(traversals') \cup Tids(finished')
            \subseteq Tids(traversals) \cup Tids(finished)
                        \cup (next_tid .. (next_tid' - 1))]_vars

\* a round that culled has just run: it offered its cycle to max_finished
\* traversals with assignments, and the root traversal, which has none and so
\* scores strictly higher, is in neither list: the cull discarded it
C30_Witness ==
    /\ pc = "round"
    /\ culled > 0
    /\ Len(attempts) = caps.max_finished
    /\ \A j \in 1 .. Len(attempts) : Len(attempts[j].before.assignments) > 0
    /\ \E j \in 1 .. Len(attempts) : attempts[j].accepted
    /\ \A k \in 1 .. Len(traversals) : Len(traversals[k].assignments) > 0
    /\ \A k \in 1 .. Len(finished) : Len(finished[k].assignments) > 0

\* C31: the active list never holds more than twice max_unfinished
\* traversals (max_finished <= max_unfinished): a round leaves at most two
\* traversals for each one it offered its cycle to, and it offers the cycle to
\* at most max_finished traversals when the list had reached max_unfinished.
C31_ActiveBounded ==
    /\ [](caps.max_finished <= caps.max_unfinished
            => Len(traversals) <= 2 * caps.max_unfinished)
    /\ [][(pc = "round" /\ cycle_i' = cycle_i + 1) =>
            /\ Len(traversals') <= 2 * Len(attempts')
            /\ Len(attempts') <= Len(traversals)
            /\ Len(attempts') < caps.max_unfinished]_vars

\* a round has doubled the active list past max_unfinished
C31_Witness ==
    /\ pc = "round"
    /\ caps.max_finished <= caps.max_unfinished
    /\ Len(traversals) > caps.max_unfinished
    /\ Len(traversals) = 2 * Len(attempts)

\* the step that leaves the loop over the cycles of find_solutions
LeavesLoop == pc = "round" /\ pc' # "round"

\* ids of the active traversals that the step adds to the finished list
Added == Tids(finished') \ Tids(finished)

\* C32: when the loop over the cycles is left, the finished list keeps what it
\* held and gains min(|active|, max_finished - |finished|) active traversals
\* when it is below max_finished, none otherwise; every active traversal
\* left out scores at least as high as every one added.
C32_FillBestFirst ==
    [][LeavesLoop =>
        LET school == schools[school_i]
            room == caps.max_finished - Len(finished)
            fits == IF room <= 0 THEN 0
                    ELSE IF Len(traversals) < room THEN Len(traversals) ELSE room
        IN /\ Tids(finished) \subseteq Tids(finished')
           /\ Len(finished') = Len(finished) + fits
           /\ Added \subseteq Tids(traversals)
           /\ Cardinality(Added) = fits
           /\ \A a, l \in 1 .. Len(traversals) :
                  (traversals[a].tid \in Added /\ traversals[l].tid \notin Added)
                     => ScoreLeq(score(traversals[a], school),
                                 score(traversals[l], school))]_vars

\* the loop was left with one place in the finished list: of the active
\* traversals one was added and one of strictly higher score was left out
C32_Witness ==
    /\ pc = "check"
    /\ Len(finished) = caps.max_finished
    /\ \E k \in 1 .. Len(finished) : finished[k].done
    /\ \E a, l \in 1 .. Len(traversals) :
          /\ traversals[a].tid \in Tids(finished)
          /\ traversals[l].tid \notin Tids(finished)
          /\ TupleLess(score(traversals[a], schools[school_i]),
                       score(traversals[l], schools[school_i]))

\* C33: during the search the active list and the finished list are never
\* both empty (caps of at least 1); the step that leaves the loop yields a
\* finished list that is not empty and takes its head as the solution; when
\* the school has no cycle, that solution is the root traversal, unchanged.
C33_AlwaysASolution ==
    /\ []((pc = "round" /\ caps.max_finished >= 1)
            => Len(traversals) + Len(finished) > 0)
    /\ [][(LeavesLoop /\ caps.max_finished >= 1) =>
            /\ Len(finished') > 0
            /\ solution' = finished'[1]]_vars
    /\ [][(LeavesLoop /\ Len(cycles) = 0) =>
            /\ traversals = <<RootTraversal(traversals[1].tid, schools[school_i],
                                              school_coaches, students, coaches)>>
            /\ finished = <<>>
            /\ solution'.tid = traversals[1].tid
            /\ solution'.assignments = <<>>
            /\ finished' = <<solution'>>]_vars

\* a school without a cycle has been searched: the finished list is the root
\* traversal alone, not Done and without assignments
C33_Witness ==
    /\ pc = "school"
    /\ run > 0
    /\ school_i > 1
    /\ Len(cycles) = 0
    /\ Len(finished) = 1
    /\ ~finished[1].done
    /\ finished[1].assignments = <<>>
    /\ finished[1].num_cycles = 0

\* C34: every cycle of the list handed to the search is a coach of the
\* school's pool followed by a positive multiple of SLOTS_PER_ASSIGNMENT node
\* keys of one day and one teacher with consecutive ascending slots, each a
\* node of the graph with a student list that is not empty.
C34_CycleForm ==
    \A i \in 1 .. Len(cycles) :
        LET c == cycles[i]
            k == Len(c) - 1
        IN /\ c[1] \in Range(school_coaches)
           /\ k > 0
           /\ k % SLOTS_PER_ASSIGNMENT = 0
           /\ \A j \in 2 .. Len(c) :
                  /\ c[j] \in DOMAIN graph.students
                  /\ graph.students[c[j]] # <<>>
                  /\ c[j][1] = c[2][1]
                  /\ c[j][3] = c[2][3]
                  /\ c[j][2] = c[2][2] + (j - 2)

\* the search has a list with a cycle of one block and a cycle of two blocks
C34_Witness ==
    /\ pc = "round"
    /\ \E i \in 1 .. Len(cycles) : Len(cycles[i]) = 1 + SLOTS_PER_ASSIGNMENT
    /\ \E i \in 1 .. Len(cycles) : Len(cycles[i]) = 1 + 2 * SLOTS_PER_ASSIGNMENT

\* the cycle list is the one find_cycles made from the coaches as they are
Enumerated == pc \in {"find_solutions", "round"}

\* the students the coach can still take: num_students less the assignments held
RemainingStudents(coach_guid) ==
    coaches[coach_guid].num_students - Cardinality(coaches[coach_guid].assignments)

\* C35 as stated: no cycle of the list has more assignment units than the
\* coach's num_students less the assignments the coach already holds.
C35_FilterByRemaining ==
    Enumerated =>
        \A i \in 1 .. Len(cycles) :
            NumGroups(cycles[i]) <= RemainingStudents(cycles[i][1])

\* C35 amended: no cycle of the list has more assignment units than the
\* coach's num_students, whatever the coach already holds; a cycle with more
\* units than the coach can still take is refused for every traversal.
C35_FilterByTotal ==
    /\ Enumerated =>
          \A i \in 1 .. Len(cycles) :
              NumGroups(cycles[i]) <= coaches[cycles[i][1]].num_students
    /\ pc = "round" =>
          \A j \in 1 .. Len(attempts) :
              NumGroups(attempts[j].cycle)
                    > attempts[j].before.coach_student_count[attempts[j].cycle[1]]
                 => ~attempts[j].created

\* a round has offered a cycle with more units than its coach could still
\* take when the list was made, and no traversal branched on it
C35_Witness ==
    /\ pc = "round"
    /\ Len(attempts) > 0
    /\ NumGroups(attempts[1].cycle) > RemainingStudents(attempts[1].cycle[1])
    /\ RemainingStudents(attempts[1].cycle[1])
          < coaches[attempts[1].cycle[1]].num_students
    /\ \A j \in 1 .. Len(attempts) : ~attempts[j].created

\* C36: in the cycle list handed to the search no cycle of a coach comes
\* after a shorter cycle of the same coach.  The round-robin by teacher takes
\* the heads of the per-teacher lists in turn, so a coach's short cycle with
\* one teacher can come before the coach's long cycle with another.
C36_LongestFirstPerCoach ==
    \A i, j \in 1 .. Len(cycles) :
        (i < j /\ cycles[i][1] = cycles[j][1]) => Len(cycles[i]) >= Len(cycles[j])

\* some student of the teacher is available (1) in the cell
HasAvailableStudent(n) ==
    \E g \in Range(schools[school_i].students) :
        /\ students[g].teacher = n[3]
        /\ students[g].schedule[n[1]][n[2]] = 1

\* C37: every node (day, slot, teacher) of the graph built by find_cycles has
\* a student of that teacher available in that cell, every edge joins two
\* such nodes, and every edge leads to the next slot of the same day and
\* teacher.  add_edge is called with the previous slot's key whether or not
\* that key is a node, and makes it one.
C37_GraphOfAvailability ==
    Enumerated =>
        /\ \A n \in graph.nodes : HasAvailableStudent(n)
        /\ \A e \in graph.edges :
              /\ HasAvailableStudent(e[1])
              /\ HasAvailableStudent(e[2])
              /\ e[2] = <<e[1][1], e[1][2] + 1, e[1][3]>>

\* a call of time_to_slot has returned a slot index
Accepted == pc = "time" /\ run > 0 /\ error = None

\* C38 as stated: every slot index time_to_slot returns is at least 0 and
\* below num_slots, also for the end time of the window.
C38_SlotBelowNumSlots ==
    Accepted => (0 <= call.slot /\ call.slot < Metadata_num_slots)

\* C38 amended: every slot index time_to_slot returns for a time of the clock
\* is at least 0 and at most num_slots; it is num_slots exactly when the time,
\* after the 12-hour rule, is the end time of the window; the slot returned
\* is the one the time falls in; times after the end time are refused.
C38_SlotWithinWindow ==
    (pc = "time" /\ run > 0) =>
        LET curr == curr_time(call.hours, call.minutes)
        IN /\ (error = None) <=> (curr <= end_time)
           /\ Accepted =>
                 /\ 0 <= call.slot
                 /\ call.slot <= Metadata_num_slots
                 /\ (call.slot = Metadata_num_slots) <=> (curr = end_time)
                 /\ start_time + call.slot * minutes_per_slot <= curr
                 /\ curr < start_time + (call.slot + 1) * minutes_per_slot

\* "3:30": the 12-hour rule makes it the end time and the slot num_slots
C38_Witness ==
    /\ Accepted
    /\ call.hours * 60 + call.minutes < start_time
    /\ curr_time(call.hours, call.minutes) = end_time
    /\ call.slot = Metadata_num_slots


\* the tuples rsdb holds for a coach, and the days they lie on
CommittedOf(coach_guid) ==
    {t \in {assignments[i].assign : i \in 1 .. Len(assignments)} : t[5] = coach_guid}
CommittedDays(coach_guid) == {t[1] : t \in CommittedOf(coach_guid)}

\* a school's commit is complete: do_match is between two schools, or done
BetweenSchools == pc \in {"school", "idle"} /\ run > 0

\* C39: when do_match processes several schools one after another on the
\* shared database, coach limits carry over: after each school's commit the
\* assignments stored for a coach lie on at most num_days distinct days,
\* number at most num_students, and those on one day are all of one school
C39_LimitsCarryOver ==
    BetweenSchools =>
        \A g \in DOMAIN coaches :
            /\ Cardinality(CommittedDays(g)) <= coaches[g].num_days
            /\ Cardinality(CommittedOf(g)) <= coaches[g].num_students
            /\ \A t \in CommittedOf(g), u \in CommittedOf(g) :
                  t[1] = u[1] => find_school(schools, t[3]) = find_school(schools, u[3])

\* the second school of a run was committed, and one coach now holds a
\* student of each school, on different days
C39_Witness ==
    /\ pc = "school"
    /\ school_i > Len(schools)
    /\ Len(schools) > 1
    /\ \E g \in DOMAIN coaches :
          \E t \in CommittedOf(g), u \in CommittedOf(g) :
              /\ find_school(schools, t[3]) # find_school(schools, u[3])
              /\ t[1] # u[1]
              /\ Cardinality(CommittedOf(g)) = coaches[g].num_students


\* the students a traversal has in its assignment list
StudentsIn(t) == {t.assignments[i][4] : i \in 1 .. Len(t.assignments)}

\* the two student sets of t split the students of the school being matched,
\* and the students of t's assignment list are on the assigned side
StudentsSplit(t) ==
    /\ t.unassigned_students \cap t.assigned_students = {}
    /\ t.unassigned_students \cup t.assigned_students
          = Range(schools[school_i].students)
    /\ StudentsIn(t) \subseteq t.assigned_students
    /\ StudentsIn(t) \cap t.unassigned_students = {}

\* C40: in every traversal (of the active list, of the finished list, and
\* every child add_cycle created, returned or not) the unassigned and the
\* assigned student sets are disjoint, their union is the set of the school's
\* students, and every student of the traversal's assignment list is in the
\* assigned set and not in the unassigned set
C40_StudentSetsSplit ==
    pc \in {"round", "check", "add"} =>
        /\ AllKept(StudentsSplit)
        /\ AllCreated(StudentsSplit)

\* an active traversal holds an assignment of its own and, in its assigned
\* set, also a student that an earlier run committed; a student of the other
\* school is in neither set
C40_Witness ==
    /\ pc = "round"
    /\ \E i \in 1 .. Len(traversals) :
          LET t == traversals[i]
          IN /\ StudentsIn(t) # {}
             /\ t.assigned_students \ StudentsIn(t) # {}
             /\ \E g \in DOMAIN students :
                   g \notin t.unassigned_students \cup t.assigned_students

=============================================================================
